---------------------------- MODULE Spec2Model ----------------------------
(***************************************************************************)
(* A model of crcany (Mark Adler): the generic CRC engines of crc.c and    *)
(* crcdbl.c, the model normaliser and bit reversal of model.c, and the     *)
(* model reader.                                                           *)
(*                                                                         *)
(* A word_t is modelled as the set of the positions of its one bits, a     *)
(* subset of 0..WORDBITS-1, so that a word keeps its width under every     *)
(* shift: bits shifted above WORDBITS-1 are lost, as in C.  The build      *)
(* modelled is the one with WORDCHARS = 4 (model.h line 37).               *)
(***************************************************************************)
EXTENDS Integers, Sequences, FiniteSets, TLC

\* ------------------------------------------------------------------------
\* word_t and its operators
\* ------------------------------------------------------------------------

WORDCHARS == 4

WORDBITS == 32

Bits == 0 .. (WORDBITS - 1)

\* The word whose value is the natural number n (n < 2^31).
RECURSIVE WFrom(_, _)
WFrom(n, i) ==
    IF n = 0 THEN {}
    ELSE (IF n % 2 = 1 THEN {i} ELSE {}) \cup WFrom(n \div 2, i + 1)

W(n) == WFrom(n, 0)

\* The value of a word that fits in 31 bits: the bits i .. j, by halves.
RECURSIVE ToNatFrom(_, _, _)
ToNatFrom(x, i, j) ==
    IF i = j THEN (IF i \in x THEN 2 ^ i ELSE 0)
    ELSE ToNatFrom(x, i, (i + j) \div 2) + ToNatFrom(x, (i + j) \div 2 + 1, j)

ToNat(x) == ToNatFrom(x, 0, 30)

\* The value of the low byte of a word: (x & 0xff) as an array index.
LowByte(x) ==
      (IF 0 \in x THEN 1 ELSE 0) + (IF 1 \in x THEN 2 ELSE 0)
    + (IF 2 \in x THEN 4 ELSE 0) + (IF 3 \in x THEN 8 ELSE 0)
    + (IF 4 \in x THEN 16 ELSE 0) + (IF 5 \in x THEN 32 ELSE 0)
    + (IF 6 \in x THEN 64 ELSE 0) + (IF 7 \in x THEN 128 ELSE 0)

\* The words of the 256 byte values, computed once.
ByteWord == [b \in 0 .. 255 |-> W(b)]

\* x << n and x >> n on a word_t, 0 <= n < WORDBITS.
SHL(x, n) == {i + n : i \in {j \in x : j + n < WORDBITS}}

SHR(x, n) == {i - n : i \in {j \in x : j >= n}}

XOR(a, b) == (a \ b) \cup (b \ a)

AND(a, b) == a \cap b

OR(a, b) == a \cup b

\* The carry into bit i of a + b: some lower bit is set in both words and
\* every bit between it and i is set in one of them.
AddCarry(a, b, i) ==
    \E j \in 0 .. (i - 1) :
        /\ j \in a \cap b
        /\ \A k \in (j + 1) .. (i - 1) : k \in a \cup b

\* a + b modulo 2^WORDBITS: the bits that differ, each inverted where a
\* carry comes in.
ADD(a, b) ==
    IF a \cap b = {} THEN a \cup b
    ELSE XOR(XOR(a, b), {i \in Bits : AddCarry(a, b, i)})

\* A word_t value.  The loops below test their running value with IsWord,
\* which makes TLC evaluate each pass before it starts the next; a value that
\* is not a word (HANG, ABORT) passes through unchanged.
IsWord(x) == x \subseteq Bits

IsDbl(c) == IsWord(c.hi) /\ IsWord(c.lo)

\* ONES(n): the low n bits set, 1 <= n <= WORDBITS.
ONES(n) == SHR(Bits, WORDBITS - n)

\* A 32-bit constant written as its two 16-bit halves.
W2(h, l) == OR(SHL(W(h), 16), W(l))

\* The null pointer: as the data of a call, and as a string that is not
\* there (no byte and no character has the value -1).
NULL == <<-1>>

\* ------------------------------------------------------------------------
\* model.c: read_var, strtobig, normal_big, strncmpi
\* A C string is the sequence of its character codes, its terminating zero
\* left out; positions count from 1.
\* ------------------------------------------------------------------------

\* s[i] of a C string: the terminating zero past the end.
At(s, i) == IF i >= 1 /\ i <= Len(s) THEN s[i] ELSE 0

isspace(c) == c \in {9, 10, 11, 12, 13, 32}

tolower(c) == IF c >= 65 /\ c <= 90 THEN c + 32 ELSE c

\* The characters at which the scanning loops of read_var() stop: the loop
\* over leading white space, over the name, over a value without quotes, and
\* strchr() for a quote.
Stops(loop, c) ==
    IF loop = "space" THEN ~isspace(c)
    ELSE IF loop = "name" THEN c = 0 \/ isspace(c) \/ c = 61
    ELSE IF loop = "value" THEN c = 0 \/ isspace(c)
    ELSE c = 0 \/ c = 34

\* Where a scanning loop of read_var() that starts at p stops.  Every one
\* of these loops stops at the terminating zero at the latest.
Scan(s, p, loop) ==
    CHOOSE q \in p .. (Len(s) + 1) :
        Stops(loop, At(s, q)) /\ \A r \in p .. (q - 1) : ~Stops(loop, At(s, r))

\* What read_var() returns with -1, and with 0 at the end of the string.
VarError == [ret |-> -1, name |-> <<>>, value |-> <<>>, next |-> 0]

VarEnd == [ret |-> 0, name |-> <<>>, value |-> <<>>, next |-> 0]

\* A quoted value: v is the value so far and q the position of the quote
\* found after it, or of the end of the string when there is none.  A quote
\* that follows the quote at q is copied into the value with what comes
\* after it, up to the next quote.
RECURSIVE read_quoted(_, _, _, _)
read_quoted(s, name, v, q) ==
    IF At(s, q) = 0 THEN VarError
    ELSE IF At(s, q + 1) = 34
    THEN read_quoted(s, name,
                     v \o SubSeq(s, q + 1, Scan(s, q + 2, "quote") - 1),
                     Scan(s, q + 2, "quote"))
    ELSE [ret |-> 1, name |-> name, value |-> v, next |-> q + 1]

\* A value without quotes, from vs up to ve; the character that ends it is
\* skipped unless it is the end of the string.
read_plain(s, name, vs, ve) ==
    IF ve = vs THEN VarError
    ELSE [ret |-> 1, name |-> name, value |-> SubSeq(s, vs, ve - 1),
          next |-> IF At(s, ve) # 0 THEN ve + 1 ELSE ve]

read_value(s, name, vs) ==
    IF At(s, vs) = 34
    THEN read_quoted(s, name,
                     SubSeq(s, vs + 1, Scan(s, vs + 1, "quote") - 1),
                     Scan(s, vs + 1, "quote"))
    ELSE read_plain(s, name, vs, Scan(s, vs, "value"))

\* The name from ns up to ne, which must be an = sign after at least one
\* character.
read_name(s, ns, ne) ==
    IF At(s, ne) # 61 \/ ne = ns THEN VarError
    ELSE read_value(s, SubSeq(s, ns, ne - 1), ne + 1)

read_start(s, ns) ==
    IF At(s, ns) = 0 THEN VarEnd ELSE read_name(s, ns, Scan(s, ns, "name"))

\* read_var() on the string s from position p: ret, the name, the value,
\* and the position after the value.
read_var(s, p) == read_start(s, Scan(s, p, "space"))

\* a < b on word_t values.
LT(a, b) == \E i \in b \ a : \A j \in XOR(a, b) : j <= i

\* The double-word zero, and the mark of a number that overflowed, at which
\* SHLO() and ADDO() make strtobig() return NULL.
Big0 == [hi |-> {}, lo |-> {}]

Overflow == [hi |-> {-1}, lo |-> {-1}]

\* What strtobig() returns on overflow: no position.
BigNull == [end |-> 0, n |-> Overflow]

\* SHLO(r, a, n): a << n.
SHLO(a, n) ==
    IF a = Overflow THEN Overflow
    ELSE IF SHR(a.hi, WORDBITS - n) # {} THEN Overflow
    ELSE [hi |-> OR(SHL(a.hi, n), SHR(a.lo, WORDBITS - n)),
          lo |-> SHL(a.lo, n)]

\* The high word of ADDO() given both sums: one more when the low word
\* wrapped, and an overflow when the high word then wraps to zero.
ADDO_carry(hi, lo, lo0) ==
    IF ~LT(lo, lo0) THEN [hi |-> hi, lo |-> lo]
    ELSE IF ADD(hi, W(1)) = {} THEN Overflow
    ELSE [hi |-> ADD(hi, W(1)), lo |-> lo]

\* ADDO(r, a): r + a.
ADDO(r, a) ==
    IF r = Overflow \/ a = Overflow THEN Overflow
    ELSE IF LT(ADD(r.hi, a.hi), r.hi) THEN Overflow
    ELSE ADDO_carry(ADD(r.hi, a.hi), ADD(r.lo, a.lo), r.lo)

\* nl |= k
big_or(n, k) ==
    IF n = Overflow THEN Overflow ELSE [hi |-> n.hi, lo |-> OR(n.lo, W(k))]

\* The value of a hexadecimal digit, 16 for any other character.
hex_digit(c) ==
    IF c >= 48 /\ c <= 57 THEN c - 48
    ELSE IF c >= 65 /\ c <= 70 THEN c - 65 + 10
    ELSE IF c >= 97 /\ c <= 102 THEN c - 97 + 10
    ELSE 16

\* The three digit loops of strtobig(), from position p with n accumulated:
\* the position of the first character that is no digit and the number.
RECURSIVE big_oct(_, _, _)
big_oct(s, p, n) ==
    IF n = Overflow THEN BigNull
    ELSE IF At(s, p) >= 48 /\ At(s, p) <= 55
    THEN big_oct(s, p + 1, big_or(SHLO(n, 3), At(s, p) - 48))
    ELSE [end |-> p, n |-> n]

\* A decimal step that leaves out the addition of 2n: n = 8n + k.
big_dec_step_octal(n2, k) == ADDO(SHLO(n2, 2), [hi |-> {}, lo |-> W(k)])

\* n = 2n + 8n + k, as the shifts and additions of the loop.
big_dec_step(n2, k) ==
    ADDO(ADDO(n2, SHLO(n2, 2)), [hi |-> {}, lo |-> W(k)])

RECURSIVE big_dec(_, _, _)
big_dec(s, p, n) ==
    IF n = Overflow THEN BigNull
    ELSE IF At(s, p) >= 48 /\ At(s, p) <= 57
    THEN big_dec(s, p + 1, big_dec_step(SHLO(n, 1), At(s, p) - 48))
    ELSE [end |-> p, n |-> n]

RECURSIVE big_hex(_, _, _)
big_hex(s, p, n) ==
    IF n = Overflow THEN BigNull
    ELSE IF hex_digit(At(s, p)) # 16
    THEN big_hex(s, p + 1, big_or(SHLO(n, 4), hex_digit(At(s, p))))
    ELSE [end |-> p, n |-> n]

\* The base from the prefix at p, and the digits.
big_digits(s, p) ==
    IF At(s, p) = 48
    THEN IF At(s, p + 1) = 120 \/ At(s, p + 1) = 88
         THEN big_hex(s, p + 2, Big0)
         ELSE big_oct(s, p + 1, Big0)
    ELSE big_dec(s, p, Big0)

\* nl = ~nl + 1; nh = ~nh + (nl == 0 ? 1 : 0);
big_neg_lo(n) == ADD(Bits \ n.lo, W(1))

big_neg(n) ==
    [hi |-> ADD(Bits \ n.hi, IF big_neg_lo(n) = {} THEN W(1) ELSE {}),
     lo |-> big_neg_lo(n)]

big_sign(neg, r) ==
    IF r = BigNull THEN BigNull
    ELSE IF neg THEN [end |-> r.end, n |-> big_neg(r.n)]
    ELSE r

\* strtobig() on the string s: the position where the number ends, 0 for
\* NULL, and the number.
strtobig(s) ==
    IF At(s, 1) = 45 THEN big_sign(TRUE, big_digits(s, 2))
    ELSE big_sign(FALSE, big_digits(s, 1))

\* The masks of normal_big(): the bits of a double word above width.
big_mask_lo(width) == IF width < WORDBITS THEN SHL(Bits, width) ELSE {}

big_mask_hi(width) ==
    IF width <= WORDBITS THEN Bits
    ELSE IF width < WORDBITS * 2 THEN SHL(Bits, width - WORDBITS)
    ELSE {}

\* The bits above width are all ones.
big_all_ones(v, width) ==
    /\ AND(v.lo, big_mask_lo(width)) = big_mask_lo(width)
    /\ AND(v.hi, big_mask_hi(width)) = big_mask_hi(width)

\* What normal_big() returns, and the value it leaves.
normal_big(v, width) ==
    /\ ~big_all_ones(v, width)
    /\ (AND(v.lo, big_mask_lo(width)) # {}
        \/ AND(v.hi, big_mask_hi(width)) # {})

normal_big_value(v, width) ==
    IF big_all_ones(v, width)
    THEN [hi |-> v.hi \ big_mask_hi(width), lo |-> v.lo \ big_mask_lo(width)]
    ELSE v

\* The positions below n where the two strings differ without regard to
\* case, and those where the first string ends.
strncmpi_diff(s1, s2, n) ==
    {i \in 1 .. n : tolower(At(s1, i)) # tolower(At(s2, i))}

strncmpi_end(s1, n) == {i \in 1 .. n : At(s1, i) = 0}

\* The least element of a set of positions that is not empty.
Least(S) == CHOOSE i \in S : \A j \in S : i <= j

\* strcmp() on the first n characters: as strncmpi(), but a letter differs
\* from the same letter in the other case.
strncmp_cased(s1, s2, n) ==
    IF \A i \in 1 .. n :
          At(s1, i) = At(s2, i) \/ \E j \in 1 .. (i - 1) : At(s1, j) = 0
    THEN 0
    ELSE 1

\* strncmpi(): zero when no character differs before the first string ends
\* or n characters are compared.
strncmpi(s1, s2, n) ==
    IF strncmpi_diff(s1, s2, n) = {} THEN 0
    ELSE IF \E z \in strncmpi_end(s1, n) : z < Least(strncmpi_diff(s1, s2, n))
    THEN 0
    ELSE tolower(At(s1, Least(strncmpi_diff(s1, s2, n))))
         - tolower(At(s2, Least(strncmpi_diff(s1, s2, n))))

\* ------------------------------------------------------------------------
\* model.c: read_model
\* ------------------------------------------------------------------------

\* The parameter names, as C strings.
key_width == <<119, 105, 100, 116, 104>>

key_poly == <<112, 111, 108, 121>>

key_init == <<105, 110, 105, 116>>

key_refin == <<114, 101, 102, 105, 110>>

key_refout == <<114, 101, 102, 111, 117, 116>>

key_xorout == <<120, 111, 114, 111, 117, 116>>

key_check == <<99, 104, 101, 99, 107>>

key_residue == <<114, 101, 115, 105, 100, 117, 101>>

key_name == <<110, 97, 109, 101>>

key_true == <<116, 114, 117, 101>>

key_false == <<102, 97, 108, 115, 101>>

\* The masks WIDTH .. NAME: got, bad and rep are sets of these.
ALL ==
    {"width", "poly", "init", "refin", "refout", "xorout", "check", "res",
     "name"}

\* A value not yet stored: a field of the model_t that nothing has assigned.
UNSET == {-3}

\* The model_t of a driver before read_model() is first called on it.
Blank ==
    [width |-> 0, ref |-> 0, rev |-> 0,
     poly |-> UNSET, poly_hi |-> UNSET, init |-> UNSET, init_hi |-> UNSET,
     xorout |-> UNSET, xorout_hi |-> UNSET, check |-> UNSET,
     check_hi |-> UNSET, res |-> UNSET, res_hi |-> UNSET, name |-> NULL,
     table_byte |-> <<>>, table_word |-> <<>>, table_comb |-> <<>>,
     cycle |-> 0, back |-> 0]

\* The parameter is noted as repeated, as out of range, or as got.
note_rep(r, P) == [r EXCEPT !.rep = @ \cup {P}]

note_bad(r, P) == [r EXCEPT !.bad = @ \cup {P}]

note_got(r, P) == [r EXCEPT !.got = @ \cup {P}]

\* model->width = lo, width being an unsigned short.
store_width(r, lo) ==
    note_got([r EXCEPT !.m.width = ToNat(AND(lo, ONES(16)))], "width")

\* The width parameter with its value and what strtobig() made of it.
parm_width(r, value, big) ==
    IF "width" \in r.got THEN note_rep(r, "width")
    ELSE IF big.end = 0 \/ At(value, big.end) # 0 \/ big.n.hi # {}
    THEN note_bad(r, "width")
    ELSE store_width(r, big.n.lo)

\* A double-word parameter P, stored in the fields lo and hi of the model; a
\* value that is no number is noted against the parameter blame.
parm_big(r, P, blame, lo, hi, value, big) ==
    IF P \in r.got THEN note_rep(r, P)
    ELSE IF big.end = 0 \/ At(value, big.end) # 0 THEN note_bad(r, blame)
    ELSE note_got([r EXCEPT !.m[lo] = big.n.lo, !.m[hi] = big.n.hi], P)

\* refin or refout, stored in the field f: the value must begin true or
\* false, whatever the case, and the flag is set when it starts with a t.
parm_flag(r, P, f, value) ==
    IF P \in r.got THEN note_rep(r, P)
    ELSE IF /\ strncmpi(value, key_true, Len(value)) # 0
            /\ strncmpi(value, key_false, Len(value)) # 0
    THEN note_bad(r, P)
    ELSE note_got([r EXCEPT !.m[f] = IF At(value, 1) = 116 THEN 1 ELSE 0], P)

parm_name(r, value) ==
    IF "name" \in r.got THEN note_rep(r, "name")
    ELSE note_got([r EXCEPT !.m.name = value], "name")

\* The larger of two lengths.
at_least(k, n) == IF n < k THEN k ELSE n

\* What read_model() has noted so far.  The loop below tests it with IsRead,
\* which makes TLC evaluate each pair before it reads the next.
IsRead(r) == r.got \subseteq ALL

\* The body of the while loop of read_model() for one name=value pair.
read_parm(r, name, value) ==
    IF strncmpi(name, key_width, Len(name)) = 0
    THEN parm_width(r, value, strtobig(value))
    ELSE IF strncmpi(name, key_poly, Len(name)) = 0
    THEN parm_big(r, "poly", "poly", "poly", "poly_hi", value,
                  strtobig(value))
    ELSE IF strncmpi(name, key_init, Len(name)) = 0
    THEN parm_big(r, "init", "poly", "init", "init_hi", value,
                  strtobig(value))
    ELSE IF strncmpi(name, key_refin, Len(name)) = 0
    THEN parm_flag(r, "refin", "ref", value)
    ELSE IF strncmpi(name, key_refout, at_least(4, Len(name))) = 0
    THEN parm_flag(r, "refout", "rev", value)
    ELSE IF strncmpi(name, key_xorout, Len(name)) = 0
    THEN parm_big(r, "xorout", "xorout", "xorout", "xorout_hi", value,
                  strtobig(value))
    ELSE IF strncmpi(name, key_check, Len(name)) = 0
    THEN parm_big(r, "check", "check", "check", "check_hi", value,
                  strtobig(value))
    ELSE IF strncmpi(name, key_residue, at_least(3, Len(name))) = 0
    THEN parm_big(r, "res", "res", "res", "res_hi", value, strtobig(value))
    ELSE IF strncmpi(name, key_name, Len(name)) = 0
    THEN parm_name(r, value)
    ELSE [r EXCEPT !.unk = name]

\* while ((ret = read_var(&str, &name, &value)) == 1) { ... }: r holds the
\* model, got, bad, rep and unk, p is the position in the string.
RECURSIVE read_loop(_, _, _)
RECURSIVE read_step(_, _, _)
read_loop(s, r, p) ==
    IF IsRead(r) THEN read_step(s, r, read_var(s, p)) ELSE r

read_step(s, r, v) ==
    IF v.ret # 1 THEN [r EXCEPT !.ret = v.ret]
    ELSE read_loop(s, read_parm(r, v.name, v.value), v.next)

\* The defaults of init, of the refin or refout that was left out, of
\* xorout and residue, and of check for a lenient caller.
default_init(r) ==
    IF "init" \in r.got THEN r
    ELSE note_got([r EXCEPT !.m.init = {}, !.m.init_hi = {}], "init")

default_ref(r) ==
    IF "refin" \in r.got /\ "refout" \notin r.got
    THEN note_got([r EXCEPT !.m.rev = r.m.ref], "refout")
    ELSE IF "refout" \in r.got /\ "refin" \notin r.got
    THEN note_got([r EXCEPT !.m.ref = r.m.rev], "refin")
    ELSE r

default_xorout(r) ==
    IF "xorout" \in r.got THEN r
    ELSE note_got([r EXCEPT !.m.xorout = {}, !.m.xorout_hi = {}], "xorout")

default_res(r) ==
    IF "res" \in r.got THEN r
    ELSE note_got([r EXCEPT !.m.res = {}, !.m.res_hi = {}], "res")

default_check(r, lenient) ==
    IF lenient = 1 /\ "check" \notin r.got
    THEN note_got([r EXCEPT !.m.check = {}], "check")
    ELSE r

\* The double word in the fields lo and hi of the model.
big_of(r, lo, hi) == [hi |-> r.m[hi], lo |-> r.m[lo]]

\* normal_big() on the fields lo and hi when the parameter P was got: the
\* fields as it leaves them, and P noted as out of range when it says so
\* or when the test low, for a polynomial, finds its low bit clear.
range_big(r, P, lo, hi, low) ==
    IF P \notin r.got THEN r
    ELSE IF normal_big(big_of(r, lo, hi), r.m.width)
            \/ (low /\ 0 \notin normal_big_value(big_of(r, lo, hi),
                                                 r.m.width).lo)
    THEN note_bad([r EXCEPT
                      !.m[lo] = normal_big_value(big_of(r, lo, hi),
                                                 r.m.width).lo,
                      !.m[hi] = normal_big_value(big_of(r, lo, hi),
                                                 r.m.width).hi], P)
    ELSE [r EXCEPT
             !.m[lo] = normal_big_value(big_of(r, lo, hi), r.m.width).lo,
             !.m[hi] = normal_big_value(big_of(r, lo, hi), r.m.width).hi]

\* The check for parameter values out of range.
range_all(r) ==
    IF "width" \notin r.got THEN r
    ELSE IF r.m.width < 1 \/ r.m.width > WORDBITS * 2
    THEN note_bad(r, "width")
    ELSE range_big(
             range_big(
                 range_big(
                     range_big(
                         range_big(r, "poly", "poly", "poly_hi", TRUE),
                         "init", "init", "init_hi", FALSE),
                     "xorout", "xorout", "xorout_hi", FALSE),
                 "check", "check", "check_hi", FALSE),
             "res", "res", "res_hi", FALSE)

\* 1 if the model is not fully specified and valid, 0 if all is good.
read_result(r) ==
    [r EXCEPT !.ret = IF \/ r.ret = -1
                         \/ r.unk # NULL
                         \/ r.rep # {}
                         \/ r.bad # {}
                         \/ r.got # ALL
                      THEN 1 ELSE 0]

\* read_model() on the string str: the model, what was got, found out of
\* range, repeated and unknown, and the value returned.
read_model(model, str, lenient) ==
    read_result(
        range_all(
            default_check(
                default_res(
                    default_xorout(
                        default_ref(
                            default_init(
                                read_loop(str,
                                          [m |-> [model EXCEPT !.name = NULL],
                                           got |-> {}, bad |-> {},
                                           rep |-> {}, unk |-> NULL,
                                           ret |-> 0],
                                          1))))),
                lenient)))

\* ------------------------------------------------------------------------
\* model.c: reverse, reverse_dbl, process_model
\* ------------------------------------------------------------------------

\* A butterfly stage with its two masks exchanged.
Butterfly_swapped(x, s, lo, hi) ==
    ADD(AND(SHR(x, s), hi), AND(SHL(x, s), lo))

\* One butterfly stage of reverse(): ((x >> s) & lo) + ((x << s) & hi).
Butterfly(x, s, lo, hi) == ADD(AND(SHR(x, s), lo), AND(SHL(x, s), hi))

\* The mask constants of reverse().
mask_1 == W(1)

mask_2 == W(2)

mask_3 == W(3)

mask_c == W(12)

mask_5 == W(5)

mask_a == W(10)

mask_f == W(15)

mask_f0 == W(240)

mask_33 == W(51)

mask_cc == W(204)

mask_55 == W(85)

mask_aa == W(170)

mask_ff == W(255)

mask_ff00 == W(65280)

mask_f0f == W(3855)

mask_f0f0 == W(61680)

mask_3333 == W(13107)

mask_cccc == W(52428)

mask_5555 == W(21845)

mask_aaaa == W(43690)

mask_ffff == W(65535)

mask_ffff0000 == W2(65535, 0)

mask_ff00ff == W2(255, 255)

mask_ff00ff00 == W2(65280, 65280)

mask_f0f0f0f == W2(3855, 3855)

mask_f0f0f0f0 == W2(61680, 61680)

mask_33333333 == W2(13107, 13107)

mask_cccccccc == W2(52428, 52428)

mask_55555555 == W2(21845, 21845)

mask_aaaaaaaa == W2(43690, 43690)

RECURSIVE reverse(_, _)
reverse(x, n) ==
    IF n = 1 THEN AND(x, mask_1)
    ELSE IF n = 2 THEN ADD(AND(SHR(x, 1), mask_1), AND(SHL(x, 1), mask_2))
    ELSE IF n <= 4 THEN
        SHR(Butterfly(Butterfly(x, 2, mask_3, mask_c), 1, mask_5, mask_a),
            4 - n)
    ELSE IF n <= 8 THEN
        SHR(Butterfly(Butterfly(Butterfly(x, 4, mask_f, mask_f0),
                                2, mask_33, mask_cc),
                      1, mask_55, mask_aa),
            8 - n)
    ELSE IF n <= 16 THEN
        SHR(Butterfly(Butterfly(Butterfly(Butterfly(x, 8, mask_ff, mask_ff00),
                                          4, mask_f0f, mask_f0f0),
                                2, mask_3333, mask_cccc),
                      1, mask_5555, mask_aaaa),
            16 - n)
    ELSE IF n <= 32 THEN
        SHR(Butterfly(Butterfly(Butterfly(Butterfly(Butterfly(
                x, 16, mask_ffff, mask_ffff0000),
                8, mask_ff00ff, mask_ff00ff00),
                4, mask_f0f0f0f, mask_f0f0f0f0),
                2, mask_33333333, mask_cccccccc),
                1, mask_55555555, mask_aaaaaaaa),
            32 - n)
    ELSE IF n < 2 * WORDBITS THEN SHL(reverse(x, WORDBITS), n - WORDBITS)
    ELSE {}

\* The two words of reverse_dbl() from tmp = reverse(lo, WORDBITS) and the
\* new lo = reverse(hi, n - WORDBITS).
reverse_join(tmp, lo1, n) ==
    IF n < WORDBITS * 2
    THEN [hi |-> SHR(tmp, WORDBITS * 2 - n),
          lo |-> OR(lo1, SHL(tmp, n - WORDBITS))]
    ELSE [hi |-> tmp, lo |-> lo1]

\* reverse_dbl on the pair hi, lo: the result as a record.
reverse_dbl(hi, lo, n) ==
    IF n <= WORDBITS THEN [hi |-> {}, lo |-> reverse(lo, n)]
    ELSE reverse_join(reverse(lo, WORDBITS), reverse(hi, n - WORDBITS), n)

\* The model with the polynomial p and the initial register i, and rev made
\* the flag to reverse the result.
process_store(m, p, i) ==
    [m EXCEPT !.poly = p.lo, !.poly_hi = p.hi,
              !.init = XOR(i.lo, m.xorout),
              !.init_hi = XOR(i.hi, m.xorout_hi),
              !.rev = (m.rev + m.ref) % 2]

\* reverse_dbl() of the pair when the flag is set.
reverse_if(flag, hi, lo, n) ==
    IF flag = 1 THEN reverse_dbl(hi, lo, n) ELSE [hi |-> hi, lo |-> lo]

\* process_model() without the reversal of init.
process_model_plain(m) ==
    process_store(m, reverse_if(m.ref, m.poly_hi, m.poly, m.width),
                     [hi |-> m.init_hi, lo |-> m.init])

process_model(m) ==
    process_store(m, reverse_if(m.ref, m.poly_hi, m.poly, m.width),
                     reverse_if(m.rev, m.init_hi, m.init, m.width))

\* ------------------------------------------------------------------------
\* crc.c: the bit-wise engine
\* ------------------------------------------------------------------------

\* k passes of  crc = crc & 1 ? (crc >> 1) ^ poly : crc >> 1;  the passes
\* beyond eight are taken eight at a time, which keeps the evaluation shallow.
RECURSIVE bits_ref(_, _, _)
bits_ref(crc, poly, k) ==
    IF k = 0 \/ ~IsWord(crc) THEN crc
    ELSE IF k > 8 THEN bits_ref(bits_ref(crc, poly, 8), poly, k - 8)
    ELSE IF 0 \in crc THEN bits_ref(XOR(SHR(crc, 1), poly), poly, k - 1)
    ELSE bits_ref(SHR(crc, 1), poly, k - 1)

\* k passes of  crc = crc & mask ? (crc << 1) ^ poly : crc << 1;
RECURSIVE bits_norm(_, _, _, _)
bits_norm(crc, poly, mask, k) ==
    IF k = 0 \/ ~IsWord(crc) THEN crc
    ELSE IF k > 8 THEN bits_norm(bits_norm(crc, poly, mask, 8), poly, mask,
                                 k - 8)
    ELSE IF AND(crc, mask) # {}
    THEN bits_norm(XOR(SHL(crc, 1), poly), poly, mask, k - 1)
    ELSE bits_norm(SHL(crc, 1), poly, mask, k - 1)

\* while (len--) { crc ^= *buf++; eight reflected bit steps }
RECURSIVE bitwise_ref(_, _, _, _, _)
bitwise_ref(crc, poly, dat, i, len) ==
    IF len = 0 \/ ~IsWord(crc) THEN crc
    ELSE bitwise_ref(bits_ref(XOR(crc, ByteWord[dat[i]]), poly, 8),
                     poly, dat, i + 1, len - 1)

\* while (len--) { crc ^= (word_t)(*buf++) << shift; eight bit steps }
RECURSIVE bitwise_norm(_, _, _, _, _, _, _)
bitwise_norm(crc, poly, mask, shift, dat, i, len) ==
    IF len = 0 \/ ~IsWord(crc) THEN crc
    ELSE bitwise_norm(
             bits_norm(XOR(crc, SHL(ByteWord[dat[i]], shift)), poly, mask, 8),
             poly, mask, shift, dat, i + 1, len - 1)

\* if (model->rev) crc = reverse(crc, model->width);
rev_word(model, crc) ==
    IF model.rev = 1 THEN reverse(crc, model.width) ELSE crc

\* The three loops of crc_bitwise() on the pre-processed register crc.
bitwise_loops(model, crc, dat, len) ==
    IF model.ref = 1 THEN
        bitwise_ref(AND(crc, ONES(model.width)), model.poly, dat, 1, len)
    ELSE IF model.width <= 8 THEN
        AND(SHR(bitwise_norm(SHL(crc, 8 - model.width),
                             SHL(model.poly, 8 - model.width),
                             ByteWord[128], 0, dat, 1, len),
                8 - model.width),
            ONES(model.width))
    ELSE
        AND(bitwise_norm(crc, model.poly, SHL(W(1), model.width - 1),
                         model.width - 8, dat, 1, len),
            ONES(model.width))

crc_bitwise_do(model, crc, dat, len) ==
    XOR(rev_word(model,
                 bitwise_loops(model,
                               rev_word(model, XOR(crc, model.xorout)),
                               dat, len)),
        model.xorout)

crc_bitwise(model, crc, dat, len) ==
    IF dat = NULL THEN model.init ELSE crc_bitwise_do(model, crc, dat, len)

\* ------------------------------------------------------------------------
\* crc.c: the byte-wise table and engine
\* ------------------------------------------------------------------------

\* The table entry made of crc: shifted up for a narrow non-reflected CRC.
table_byte_entry(model, crc) ==
    IF model.width < 8 /\ model.ref = 0
    THEN SHL(crc, 8 - model.width) ELSE crc

crc_table_bytewise(model) ==
    [k \in 0 .. 255 |->
        table_byte_entry(model,
                         rev_word(model, crc_bitwise(model, {}, <<k>>, 1)))]

\* crc = (crc >> 8) ^ table_byte[(crc ^ b) & 0xff]
byte_ref(model, crc, b) ==
    XOR(SHR(crc, 8), model.table_byte[LowByte(XOR(crc, ByteWord[b]))])

\* crc = (crc << 8) ^ table_byte[((crc >> shift) ^ b) & 0xff]
byte_norm(model, crc, shift, b) ==
    XOR(SHL(crc, 8),
        model.table_byte[LowByte(XOR(SHR(crc, shift), ByteWord[b]))])

RECURSIVE bytewise_ref(_, _, _, _, _)
bytewise_ref(model, crc, dat, i, len) ==
    IF len = 0 \/ ~IsWord(crc) THEN crc
    ELSE bytewise_ref(model, byte_ref(model, crc, dat[i]), dat, i + 1, len - 1)

\* while (len--) crc = table_byte[crc ^ *buf++];  (the index is not masked)
RECURSIVE bytewise_small(_, _, _, _, _)
bytewise_small(model, crc, dat, i, len) ==
    IF len = 0 \/ ~IsWord(crc) THEN crc
    ELSE bytewise_small(model,
                        model.table_byte[ToNat(XOR(crc, ByteWord[dat[i]]))],
                        dat, i + 1, len - 1)

RECURSIVE bytewise_norm(_, _, _, _, _, _)
bytewise_norm(model, crc, shift, dat, i, len) ==
    IF len = 0 \/ ~IsWord(crc) THEN crc
    ELSE bytewise_norm(model, byte_norm(model, crc, shift, dat[i]), shift,
                       dat, i + 1, len - 1)

\* The loops with the register for widths above 8 returned as the last
\* pass left it.
bytewise_loops_unmasked(model, crc, dat, len) ==
    IF model.ref = 1 THEN
        bytewise_ref(model, AND(crc, ONES(model.width)), dat, 1, len)
    ELSE IF model.width <= 8 THEN
        SHR(bytewise_small(model, SHL(crc, 8 - model.width), dat, 1, len),
            8 - model.width)
    ELSE bytewise_norm(model, crc, model.width - 8, dat, 1, len)

\* The three loops of crc_bytewise() on the pre-processed register crc.
bytewise_loops(model, crc, dat, len) ==
    IF model.ref = 1 THEN
        bytewise_ref(model, AND(crc, ONES(model.width)), dat, 1, len)
    ELSE IF model.width <= 8 THEN
        SHR(bytewise_small(model, SHL(crc, 8 - model.width), dat, 1, len),
            8 - model.width)
    ELSE
        AND(bytewise_norm(model, crc, model.width - 8, dat, 1, len),
            ONES(model.width))

crc_bytewise_do(model, crc, dat, len) ==
    rev_word(model, bytewise_loops(model, rev_word(model, crc), dat, len))

crc_bytewise(model, crc, dat, len) ==
    IF dat = NULL THEN model.init ELSE crc_bytewise_do(model, crc, dat, len)

\* ------------------------------------------------------------------------
\* crc.c: the word-wise tables and engine
\* ------------------------------------------------------------------------

\* Swap the low n bytes of x; the bytes above those are discarded.
RECURSIVE swaplow_loop(_, _, _)
swaplow_loop(x, y, n) ==
    IF n = 0 THEN y
    ELSE swaplow_loop(SHR(x, 8),
                      OR(SHL(y, 8), AND(SHR(x, 8), ByteWord[255])), n - 1)

swaplow(x, n) ==
    IF n = 0 THEN {} ELSE swaplow_loop(x, AND(x, ByteWord[255]), n - 1)

swap(x) == swaplow(x, WORDCHARS)

\* One pass of the inner loop of crc_table_wordwise(): the register after
\* one more zero byte.
table_word_step(model, xor, crc) ==
    LET c0 == XOR(crc, xor)
        c1 == IF model.ref = 1 THEN
                  XOR(SHR(c0, 8), model.table_byte[LowByte(c0)])
              ELSE IF model.width <= 8 THEN model.table_byte[ToNat(c0)]
              ELSE AND(XOR(SHL(c0, 8),
                           model.table_byte[LowByte(SHR(c0, model.width - 8))]),
                       ONES(model.width))
    IN  XOR(c1, xor)

\* The value of crc when table_word[n][k] is stored.
RECURSIVE table_word_crc(_, _, _, _)
table_word_crc(model, xor, k, n) ==
    IF n = 0 THEN model.table_byte[k]
    ELSE table_word_step(model, xor, table_word_crc(model, xor, k, n - 1))

crc_table_wordwise(model, little, word_bits) ==
    LET opp == (little + model.ref) % 2
        top == IF model.ref = 1 THEN 0
               ELSE word_bits - (IF model.width > 8 THEN model.width ELSE 8)
        xor == IF model.width < 8 /\ model.ref = 0
               THEN SHL(model.xorout, 8 - model.width) ELSE model.xorout
        word_bytes == word_bits \div 8
    IN  [n \in 0 .. (word_bytes - 1) |->
            [k \in 0 .. 255 |->
                LET crc == table_word_crc(model, xor, k, n)
                IN  IF opp = 1 THEN swaplow(SHL(crc, top), word_bytes)
                    ELSE SHL(crc, top)]]

\* The WORDCHARS bytes at dat[i..] loaded least significant byte first
\* whatever the host is.
RECURSIVE load_word_low_first(_, _, _, _)
load_word_low_first(dat, i, little, j) ==
    IF j = WORDCHARS THEN {}
    ELSE OR(SHL(ByteWord[dat[i + j]], 8 * j),
            load_word_low_first(dat, i, little, j + 1))

\* *(word_t const *)buf: the WORDCHARS bytes at dat[i..] as the host loads
\* them.
RECURSIVE load_word(_, _, _, _)
load_word(dat, i, little, j) ==
    IF j = WORDCHARS THEN {}
    ELSE OR(SHL(ByteWord[dat[i + j]],
                IF little = 1 THEN 8 * j ELSE 8 * (WORDCHARS - 1 - j)),
            load_word(dat, i, little, j + 1))

\* The exclusive-or of the WORDCHARS table look-ups of one word, lanes j and
\* up: lane j indexes table_word[WORDCHARS-1-j] on a little-endian host and
\* table_word[j] on a big-endian one.
RECURSIVE word_lanes(_, _, _, _)
word_lanes(model, crc, little, j) ==
    IF j = WORDCHARS THEN {}
    ELSE XOR(model.table_word[IF little = 1 THEN WORDCHARS - 1 - j ELSE j]
                             [LowByte(SHR(crc, 8 * j))],
             word_lanes(model, crc, little, j + 1))

\* do { crc ^= *(word_t const *)buf; crc = lanes; buf += WORDCHARS;
\*      len -= WORDCHARS; } while (len >= WORDCHARS);
RECURSIVE word_loop(_, _, _, _, _, _)
word_loop(model, crc, dat, i, len, little) ==
    LET c == word_lanes(model, XOR(crc, load_word(dat, i, little, 0)),
                        little, 0)
    IN  IF len - WORDCHARS >= WORDCHARS /\ IsWord(c)
        THEN word_loop(model, c, dat, i + WORDCHARS, len - WORDCHARS, little)
        ELSE c

\* One byte of the head and tail loops of crc_wordwise().
word_byte(model, crc, shift, b) ==
    IF model.ref = 1 THEN byte_ref(model, crc, b)
    ELSE IF model.width <= 8
    THEN model.table_byte[LowByte(XOR(crc, ByteWord[b]))]
    ELSE byte_norm(model, crc, shift, b)

\* while (len && ((ptrdiff_t)buf & (WORDCHARS - 1))) { one byte; len--; }
\* The result is the crc and the number of bytes consumed.
RECURSIVE word_head(_, _, _, _, _, _, _)
word_head(model, crc, shift, dat, i, len, addr) ==
    IF len # 0 /\ (addr % WORDCHARS) # 0 /\ IsWord(crc)
    THEN word_head(model, word_byte(model, crc, shift, dat[i]), shift,
                   dat, i + 1, len - 1, addr + 1)
    ELSE [crc |-> crc, i |-> i, len |-> len]

RECURSIVE word_tail(_, _, _, _, _, _)
word_tail(model, crc, shift, dat, i, len) ==
    IF len = 0 \/ ~IsWord(crc) THEN crc
    ELSE word_tail(model, word_byte(model, crc, shift, dat[i]), shift,
                   dat, i + 1, len - 1)

\* The left shift that puts a non-reflected register at the top of a word.
word_top(model) ==
    IF model.ref = 1 THEN 0
    ELSE WORDBITS - (IF model.width > 8 THEN model.width ELSE 8)

\* The shift between the register and a byte.
word_shift(model) ==
    IF model.width <= 8 THEN 8 - model.width ELSE model.width - 8

\* The pre-processing of the register for the byte loops.
word_pre(model, crc) ==
    IF model.ref = 1 THEN AND(crc, ONES(model.width))
    ELSE IF model.width <= 8 THEN SHL(crc, word_shift(model))
    ELSE crc

\* The byte order of the register is swapped around the word loop when the
\* host's byte order is not the one the register's direction needs.
word_swap(model, little, x) ==
    IF (little = 1 /\ model.ref = 0) \/ (little # 1 /\ model.ref = 1)
    THEN swap(x) ELSE x

\* if (len >= WORDCHARS) { shift up, swap, word loop, swap, shift down },
\* after the head loop left h.
word_part(model, h, dat, little) ==
    IF h.len >= WORDCHARS THEN
        SHR(word_swap(model, little,
                      word_loop(model,
                                word_swap(model, little,
                                          SHL(h.crc, word_top(model))),
                                dat, h.i, h.len, little)),
            word_top(model))
    ELSE h.crc

\* The tail loop, over the bytes the word loop left.
word_rest(model, h, crc, dat) ==
    word_tail(model, crc, word_shift(model), dat,
              h.i + WORDCHARS * (h.len \div WORDCHARS),
              h.len - WORDCHARS * (h.len \div WORDCHARS))

\* The post-processing of the register.
word_post(model, crc) ==
    IF model.ref = 1 THEN crc
    ELSE IF model.width <= 8 THEN SHR(crc, word_shift(model))
    ELSE AND(crc, ONES(model.width))

\* Everything of crc_wordwise() after the head loop left h.
word_body(model, h, dat, little) ==
    rev_word(model,
             word_post(model,
                       word_rest(model, h, word_part(model, h, dat, little),
                                 dat)))

\* addr is the address of the buffer; little is 1 on a little-endian host.
crc_wordwise_do(model, crc, dat, len, addr, little) ==
    word_body(model,
              word_head(model, word_pre(model, rev_word(model, crc)),
                        word_shift(model), dat, 1, len, addr),
              dat, little)

\* crc_wordwise() without its test for NULL data: the crc comes back as it
\* was given.
crc_wordwise_keep(model, crc, dat, len, addr, little) ==
    IF dat = NULL THEN crc
    ELSE crc_wordwise_do(model, crc, dat, len, addr, little)

crc_wordwise(model, crc, dat, len, addr, little) ==
    IF dat = NULL THEN model.init
    ELSE crc_wordwise_do(model, crc, dat, len, addr, little)

\* ------------------------------------------------------------------------
\* crc.c: the subscripts of table_byte[] and table_word[n][] that the table
\* routines compute, each as the word it is before it is used
\* ------------------------------------------------------------------------

\* (x & 0xff), as a word.
Masked(x) == AND(x, ByteWord[255])

\* The subscript of one pass of the loops of crc_bytewise() on the register
\* crc and the byte b: masked in the reflected loop and in the loop for
\* widths above 8, as it is in the loop for widths up to 8.
byte_index(model, crc, b) ==
    IF model.ref = 1 THEN Masked(XOR(crc, ByteWord[b]))
    ELSE IF model.width <= 8 THEN XOR(crc, ByteWord[b])
    ELSE Masked(XOR(SHR(crc, model.width - 8), ByteWord[b]))

\* The register of crc_bytewise() after the pre-processing and k passes.
bytewise_reg(model, crc, dat, k) ==
    IF model.ref = 1 THEN
        bytewise_ref(model, AND(rev_word(model, crc), ONES(model.width)),
                     dat, 1, k)
    ELSE IF model.width <= 8 THEN
        bytewise_small(model, SHL(rev_word(model, crc), 8 - model.width),
                       dat, 1, k)
    ELSE bytewise_norm(model, rev_word(model, crc), model.width - 8, dat, 1, k)

\* The subscripts of table_byte[] in crc_bytewise(model, crc, dat, len).
bytewise_indices(model, crc, dat, len) ==
    { byte_index(model, bytewise_reg(model, crc, dat, k - 1), dat[k]) :
        k \in 1 .. len }

\* The subscript of one pass of the head and tail loops of crc_wordwise(),
\* masked in all three.
word_byte_index(model, crc, shift, b) ==
    IF model.ref = 1 \/ model.width <= 8 THEN Masked(XOR(crc, ByteWord[b]))
    ELSE Masked(XOR(SHR(crc, shift), ByteWord[b]))

\* The subscripts of the head loop, which left h.
word_head_indices(model, crc, h, dat, addr) ==
    { word_byte_index(
          model,
          word_head(model, word_pre(model, rev_word(model, crc)),
                    word_shift(model), dat, 1, k - 1, addr).crc,
          word_shift(model), dat[k]) :
        k \in 1 .. (h.i - 1) }

\* The subscript of lane j of the word loop on the word c: the lanes are
\* masked but the highest, (crc >> 8 * (WORDCHARS - 1)).
lane_index(c, j) ==
    IF j = WORDCHARS - 1 THEN SHR(c, 8 * j) ELSE Masked(SHR(c, 8 * j))

\* The register of the word loop before its pass j, s being the register
\* the loop starts with.
word_loop_reg(model, s, h, dat, little, j) ==
    IF j = 1 THEN s
    ELSE word_loop(model, s, dat, h.i, WORDCHARS * (j - 1), little)

\* The subscripts of the word loop after the head loop left h.
word_loop_indices(model, s, h, dat, little) ==
    { lane_index(XOR(word_loop_reg(model, s, h, dat, little, jl[1]),
                     load_word(dat, h.i + WORDCHARS * (jl[1] - 1), little,
                               0)),
                 jl[2]) :
        jl \in (1 .. (h.len \div WORDCHARS)) \X (0 .. (WORDCHARS - 1)) }

\* The subscripts of the tail loop, which starts with the register w at
\* dat[i] and runs len times.
word_tail_indices(model, w, dat, i, len) ==
    { word_byte_index(
          model, word_tail(model, w, word_shift(model), dat, i, k - 1),
          word_shift(model), dat[i + k - 1]) :
        k \in 1 .. len }

\* The subscripts of crc_wordwise() after the head loop left h.
word_body_indices(model, crc, h, dat, addr, little) ==
    word_head_indices(model, crc, h, dat, addr)
    \cup word_loop_indices(
             model, word_swap(model, little, SHL(h.crc, word_top(model))),
             h, dat, little)
    \cup word_tail_indices(
             model, word_part(model, h, dat, little), dat,
             h.i + WORDCHARS * (h.len \div WORDCHARS),
             h.len - WORDCHARS * (h.len \div WORDCHARS))

\* The subscripts of table_byte[] and table_word[n][] in
\* crc_wordwise(model, crc, dat, len) on the buffer at address addr.
wordwise_indices(model, crc, dat, len, addr, little) ==
    word_body_indices(
        model, crc,
        word_head(model, word_pre(model, rev_word(model, crc)),
                  word_shift(model), dat, 1, len, addr),
        dat, addr, little)

\* The subscript of table_byte[] in one pass of the inner loop of
\* crc_table_wordwise() on the register crc: masked but for widths up to 8
\* of a non-reflected model.
table_word_index(model, xor, crc) ==
    IF model.ref = 1 THEN Masked(XOR(crc, xor))
    ELSE IF model.width <= 8 THEN XOR(crc, xor)
    ELSE Masked(SHR(XOR(crc, xor), model.width - 8))

\* The subscripts of table_byte[] in crc_table_wordwise(): k itself for
\* table_word[0][k], and one for each further table_word[n][k].
table_indices(model, xor, word_bytes) ==
    { ByteWord[k] : k \in 0 .. 255 }
    \cup { table_word_index(model, xor,
                            table_word_crc(model, xor, kn[1], kn[2] - 1)) :
             kn \in (0 .. 255) \X (1 .. (word_bytes - 1)) }

table_wordwise_indices(model, word_bits) ==
    table_indices(model,
                  IF model.width < 8 /\ model.ref = 0
                  THEN SHL(model.xorout, 8 - model.width) ELSE model.xorout,
                  word_bits \div 8)

\* The subscripts of one call of engine eng.
EngineIndices(eng, m, crc, dat, len, addr, host) ==
    IF eng = "bytewise" THEN bytewise_indices(m, crc.lo, dat, len)
    ELSE IF eng = "wordwise"
    THEN wordwise_indices(m, crc.lo, dat, len, addr, host)
    ELSE {}

\* ------------------------------------------------------------------------
\* crcgen.c: the routines crc_gen() writes for a model, as the C they are
\* computes.  crc is of the type crc_type of crc_bits bits, so each value
\* assigned to it is cut to crc_bits bits; val is an unsigned.
\* ------------------------------------------------------------------------

\* The bits of crc_type: uint8_t, uint16_t or uint32_t by the width (and
\* uint64_t above 32 bits, which needs a word of 64 bits).
crc_bits(m) ==
    IF m.width <= 8 THEN 8 ELSE IF m.width <= 16 THEN 16 ELSE 32

\* The conversion of x to an unsigned type of the given number of bits.
as_type(x, bits) == x \cap (0 .. (bits - 1))

\* crc = ~crc
gen_not(m, crc) == as_type(Bits \ crc, crc_bits(m))

\* revlow(): the exchange of halves, quarters, ... of the crc_bits bits,
\* with the masks crc_gen() computes, and the shift down to the width.
gen_revlow(m, crc) ==
    IF crc_bits(m) = 8 THEN
        SHR(Butterfly(Butterfly(Butterfly(crc, 4, mask_f, mask_f0),
                                2, mask_33, mask_cc),
                      1, mask_55, mask_aa),
            8 - m.width)
    ELSE IF crc_bits(m) = 16 THEN
        SHR(Butterfly(Butterfly(Butterfly(Butterfly(
                crc, 8, mask_ff, mask_ff00),
                4, mask_f0f, mask_f0f0),
                2, mask_3333, mask_cccc),
                1, mask_5555, mask_aaaa),
            16 - m.width)
    ELSE
        SHR(Butterfly(Butterfly(Butterfly(Butterfly(Butterfly(
                crc, 16, mask_ffff, mask_ffff0000),
                8, mask_ff00ff, mask_ff00ff00),
                4, mask_f0f0f0f, mask_f0f0f0f0),
                2, mask_33333333, mask_cccccccc),
                1, mask_55555555, mask_aaaaaaaa),
            32 - m.width)

\* if (model->rev) "crc = revlow(crc);"
gen_rev(m, crc) == IF m.rev = 1 THEN gen_revlow(m, crc) ELSE crc

\* if (model->width != crc_bits && !model->rev) "crc &= ONES(width);"
gen_mask(m, crc) ==
    IF m.width # crc_bits(m) /\ m.rev = 0 THEN AND(crc, ONES(m.width))
    ELSE crc

\* The exclusive-or with xorout at the start of _bit and _rem.
gen_xor_first(m, crc) ==
    IF m.xorout = {} THEN crc
    ELSE IF m.xorout = ONES(m.width) THEN gen_not(m, crc)
    ELSE XOR(crc, m.xorout)

\* The one at their end: "crc = ~crc;" when full tells so.
gen_xor_last(m, crc, full) ==
    IF m.xorout = {} THEN crc
    ELSE IF m.xorout = ONES(m.width) /\ full THEN gen_not(m, crc)
    ELSE XOR(crc, m.xorout)

\* _bit and _rem up to their loop, on the argument crc.
gen_start(m, crc) ==
    IF m.ref = 1 THEN gen_mask(m, gen_rev(m, gen_xor_first(m, crc)))
    ELSE IF m.width < 8
    THEN as_type(SHL(gen_rev(m, gen_xor_first(m, crc)), 8 - m.width), 8)
    ELSE gen_rev(m, gen_xor_first(m, crc))

\* _bit and _rem after their loop.
gen_finish(m, crc) ==
    IF m.ref = 1
    THEN gen_xor_last(m, gen_rev(m, crc), crc_bits(m) = m.width)
    ELSE IF m.width <= 8
    THEN IF m.rev = 1
         THEN gen_xor_last(m, gen_rev(m, SHR(crc, 8 - m.width)), FALSE)
         ELSE AND(gen_xor_last(m, SHR(crc, 8 - m.width), TRUE),
                  ONES(m.width))
    ELSE gen_mask(m, gen_xor_last(m, gen_rev(m, crc), m.rev = 0))

\* k passes of "crc = crc & 1 ? (crc >> 1) ^ poly : crc >> 1;"
RECURSIVE gen_passes_ref(_, _, _)
gen_passes_ref(crc, poly, k) ==
    IF k = 0 \/ ~IsWord(crc) THEN crc
    ELSE IF 0 \in crc THEN gen_passes_ref(XOR(SHR(crc, 1), poly), poly, k - 1)
    ELSE gen_passes_ref(SHR(crc, 1), poly, k - 1)

\* k passes of "crc = crc & top ? (crc << 1) ^ poly : crc << 1;" on a crc
\* of the given number of bits.
RECURSIVE gen_passes_norm(_, _, _, _, _)
gen_passes_norm(crc, top, poly, bits, k) ==
    IF k = 0 \/ ~IsWord(crc) THEN crc
    ELSE IF AND(crc, top) # {}
    THEN gen_passes_norm(as_type(XOR(SHL(crc, 1), poly), bits), top, poly,
                         bits, k - 1)
    ELSE gen_passes_norm(as_type(SHL(crc, 1), bits), top, poly, bits, k - 1)

\* The exclusive-or of crc with val, a value of eight bits, and k passes
\* of the loop: on the low bit of the register for a reflected model, on
\* bit 7 of a register kept in eight bits for a width up to 8, on its bit
\* width - 1 otherwise.
gen_passes(m, crc, val, k) ==
    IF m.ref = 1 THEN gen_passes_ref(XOR(crc, val), m.poly, k)
    ELSE IF m.width <= 8
    THEN gen_passes_norm(as_type(XOR(crc, val), 8), ByteWord[128],
                         SHL(m.poly, 8 - m.width), 8, k)
    ELSE gen_passes_norm(
             as_type(XOR(crc, SHL(val, m.width - 8)), crc_bits(m)),
             SHL(mask_1, m.width - 1), m.poly, crc_bits(m), k)

\* for (size_t i = 0; i < len; i++) { crc ^= data[i]; eight passes }
RECURSIVE gen_data(_, _, _, _, _)
gen_data(m, crc, dat, i, len) ==
    IF len = 0 \/ ~IsWord(crc) THEN crc
    ELSE gen_data(m, gen_passes(m, crc, ByteWord[dat[i]], 8), dat, i + 1,
                  len - 1)

\* name_bit(crc, mem, len)
gen_bit(m, crc, dat, len) ==
    IF dat = NULL THEN as_type(m.init, crc_bits(m))
    ELSE gen_finish(m, gen_data(m, gen_start(m, as_type(crc, crc_bits(m))),
                                dat, 1, len))

\* val with none of its bits cleared.
gen_val_whole(m, val, bits) == val

\* "val &= (1U << bits) - 1;" for a reflected model and
\* "val &= 0x100 - (0x100 >> bits);" otherwise.
gen_val(m, val, bits) ==
    IF m.ref = 1 THEN AND(val, W(2 ^ bits - 1))
    ELSE AND(val, W(256 - 256 \div 2 ^ bits))

\* name_rem(crc, val, bits)
gen_rem(m, crc, val, bits) ==
    gen_finish(m, gen_passes(m, gen_start(m, as_type(crc, crc_bits(m))),
                             gen_val(m, val, bits), bits))

\* The entries of the tables as crc_gen() writes them: table_word[][] is
\* of crc_type for a little-endian target and of the word type otherwise,
\* and table_byte[] is of crc_type or is table_word[0].
gen_word_entry(m, host, word_bits, n, k) ==
    as_type(m.table_word[n][k], IF host = 1 THEN crc_bits(m) ELSE word_bits)

\* Whether crc_gen() writes "#define table_byte table_word[0]" in place of
\* the byte-wise table.
gen_alias(m, host, word_bits) ==
    \/ host = 1 /\ (m.ref = 1 \/ m.width <= 8)
    \/ host = 0 /\ m.ref = 0 /\ m.width = word_bits

gen_byte_entry(m, host, word_bits, k) ==
    IF gen_alias(m, host, word_bits)
    THEN gen_word_entry(m, host, word_bits, 0, k)
    ELSE as_type(m.table_byte[k], crc_bits(m))

\* _byte and _word up to their first loop.
gen_table_start(m, crc) ==
    IF m.ref = 1 THEN gen_mask(m, gen_rev(m, crc))
    ELSE IF m.width < 8
    THEN as_type(SHL(gen_mask(m, gen_rev(m, crc)), 8 - m.width), 8)
    ELSE IF m.width = 8 THEN gen_mask(m, gen_rev(m, crc))
    ELSE gen_rev(m, crc)

\* _byte and _word after their last loop.
gen_table_finish(m, crc) ==
    IF m.ref = 1 THEN gen_rev(m, crc)
    ELSE IF m.width <= 8 THEN gen_rev(m, SHR(crc, 8 - m.width))
    ELSE gen_rev(m, gen_mask(m, crc))

\* One pass of a byte loop of _byte and _word:
\*   "crc = (crc >> 8) ^ table_byte[(crc ^ data[i]) & 0xff];"  ref, width > 8
\*   "crc = table_byte[crc ^ data[i]];"          width <= 8
\*   "crc = (crc << 8) ^ table_byte[((crc >> shift) ^ data[i]) & 0xff];"
gen_byte_pass(m, host, word_bits, crc, b) ==
    IF m.width <= 8
    THEN as_type(gen_byte_entry(m, host, word_bits,
                                ToNat(XOR(crc, ByteWord[b]))),
                 crc_bits(m))
    ELSE IF m.ref = 1
    THEN as_type(XOR(SHR(crc, 8),
                     gen_byte_entry(m, host, word_bits,
                                    LowByte(XOR(crc, ByteWord[b])))),
                 crc_bits(m))
    ELSE as_type(XOR(SHL(crc, 8),
                     gen_byte_entry(
                         m, host, word_bits,
                         LowByte(XOR(SHR(crc, m.width - 8), ByteWord[b])))),
                 crc_bits(m))

RECURSIVE gen_byte_loop(_, _, _, _, _, _, _)
gen_byte_loop(m, host, word_bits, crc, dat, i, len) ==
    IF len = 0 \/ ~IsWord(crc) THEN crc
    ELSE gen_byte_loop(m, host, word_bits,
                       gen_byte_pass(m, host, word_bits, crc, dat[i]),
                       dat, i + 1, len - 1)

\* name_byte(crc, mem, len)
gen_byte(m, host, word_bits, crc, dat, len) ==
    IF dat = NULL THEN as_type(m.init, crc_bits(m))
    ELSE gen_table_finish(
             m, gen_byte_loop(m, host, word_bits,
                              gen_table_start(m, as_type(crc, crc_bits(m))),
                              dat, 1, len))

\* swaplow() of the written code exchanges the bytes that hold the CRC and
\* swapmax() those of a word.
gen_swaplow(m, crc) == swaplow(crc, (m.width - 1) \div 8 + 1)

gen_swapmax(word, word_bits) == swaplow(word, word_bits \div 8)

\* The shift that puts the register at the top of its bytes on a
\* little-endian target, and at the top of the word on a big-endian one.
gen_top(m, host, word_bits) ==
    IF host = 1
    THEN IF m.width > 8 THEN (8 - (m.width % 8)) % 8 ELSE 0
    ELSE IF m.ref = 1 THEN 0
    ELSE word_bits - (IF m.width > 8 THEN m.width ELSE 8)

\* What the word loop works on, from crc: crc shifted and swapped on a
\* little-endian target, the word made from crc on a big-endian one.
gen_word_enter(m, host, word_bits, crc) ==
    IF host = 1 THEN
        IF m.ref = 1 THEN crc
        ELSE IF m.width > 8
        THEN as_type(gen_swaplow(
                         m, as_type(SHL(crc, gen_top(m, host, word_bits)),
                                    crc_bits(m))),
                     crc_bits(m))
        ELSE crc
    ELSE IF m.ref = 1 THEN gen_swapmax(crc, word_bits)
    ELSE SHL(crc, gen_top(m, host, word_bits))

\* crc from what the word loop left.
gen_word_leave(m, host, word_bits, x) ==
    IF host = 1 THEN
        IF m.ref = 1 THEN x
        ELSE IF m.width > 8
        THEN SHR(as_type(gen_swaplow(m, x), crc_bits(m)),
                 gen_top(m, host, word_bits))
        ELSE x
    ELSE IF m.ref = 1
    THEN as_type(gen_swapmax(x, word_bits), crc_bits(m))
    ELSE as_type(SHR(x, gen_top(m, host, word_bits)), crc_bits(m))

\* The exclusive-or of the look-ups of one word, lanes j and up: lane j is
\* looked up in table_word[word_bytes - 1 - j] on a little-endian target
\* and in table_word[j] on a big-endian one.
RECURSIVE gen_lanes(_, _, _, _, _)
gen_lanes(m, host, word_bits, word, j) ==
    IF j = word_bits \div 8 THEN {}
    ELSE XOR(gen_word_entry(m, host, word_bits,
                            IF host = 1 THEN word_bits \div 8 - 1 - j ELSE j,
                            LowByte(SHR(word, 8 * j))),
             gen_lanes(m, host, word_bits, word, j + 1))

\* for (size_t i = 0; i < n; i++) { word = x ^ ((word_type *)data)[i];
\* x = the look-ups of word; }, x being crc on a little-endian target.
RECURSIVE gen_word_loop(_, _, _, _, _, _, _)
gen_word_loop(m, host, word_bits, x, dat, i, n) ==
    IF n = 0 \/ ~IsWord(x) THEN x
    ELSE gen_word_loop(
             m, host, word_bits,
             as_type(gen_lanes(m, host, word_bits,
                               XOR(x, load_word(dat, i, host, 0)), 0),
                     IF host = 1 THEN crc_bits(m) ELSE word_bits),
             dat, i + word_bits \div 8, n - 1)

\* The bytes the first loop of _word takes: up to a word boundary.
gen_head_len(len, addr, word_bytes) ==
    IF (word_bytes - (addr % word_bytes)) % word_bytes < len
    THEN (word_bytes - (addr % word_bytes)) % word_bytes ELSE len

\* _word after its first loop took head bytes and left crc.
gen_word_rest(m, host, word_bits, crc, dat, len, head) ==
    gen_byte_loop(
        m, host, word_bits,
        gen_word_leave(
            m, host, word_bits,
            gen_word_loop(m, host, word_bits,
                          gen_word_enter(m, host, word_bits, crc),
                          dat, head + 1, (len - head) \div (word_bits \div 8))),
        dat,
        len - ((len - head) % (word_bits \div 8)) + 1,
        (len - head) % (word_bits \div 8))

gen_word_from(m, host, word_bits, crc, dat, len, head) ==
    gen_table_finish(
        m, gen_word_rest(m, host, word_bits,
                         gen_byte_loop(m, host, word_bits, crc, dat, 1, head),
                         dat, len, head))

\* name_word(crc, mem, len), mem being at the address addr.
gen_word(m, host, word_bits, crc, dat, len, addr) ==
    IF dat = NULL THEN as_type(m.init, crc_bits(m))
    ELSE gen_word_from(m, host, word_bits,
                       gen_table_start(m, as_type(crc, crc_bits(m))),
                       dat, len, gen_head_len(len, addr, word_bits \div 8))

\* ------------------------------------------------------------------------
\* crc.c: multiplication modulo p(x), the combine table, zeros and combine
\* ------------------------------------------------------------------------

\* a - b modulo 2^WORDBITS.
SUB(a, b) == ADD(ADD(a, Bits \ b), mask_1)

\* What a call that never returns, and a call stopped by a failed assert(),
\* leave in place of a word.
HANG == {-1}

ABORT == {-2}


\* The number of entries of model->table_comb[].
TableCombSize == 67

\* if (a & top) prod ^= b;  with the model's test of a.
multmodp_acc(hit, prod, b) == IF hit THEN XOR(prod, b) ELSE prod

\* The reflected loop of multmodp().  The operand a is shifted left once per
\* pass, so after WORDBITS passes it is zero and the loop can never break:
\* fuel counts the passes left before that is certain.
RECURSIVE multmodp_ref(_, _, _, _, _, _)
multmodp_ref(model, a, b, prod, top, fuel) ==
    IF ~IsWord(prod) THEN prod
    ELSE IF fuel = 0 THEN HANG
    ELSE IF AND(a, top) # {} /\ AND(a, SUB(top, mask_1)) = {}
    THEN XOR(prod, b)
    ELSE IF 0 \in b
    THEN multmodp_ref(model, SHL(a, 1), XOR(SHR(b, 1), model.poly),
                      multmodp_acc(AND(a, top) # {}, prod, b), top, fuel - 1)
    ELSE multmodp_ref(model, SHL(a, 1), SHR(b, 1),
                      multmodp_acc(AND(a, top) # {}, prod, b), top, fuel - 1)

\* The normal loop of multmodp(): a is shifted right once per pass.
RECURSIVE multmodp_norm(_, _, _, _, _, _)
multmodp_norm(model, a, b, prod, top, fuel) ==
    IF ~IsWord(prod) THEN prod
    ELSE IF fuel = 0 THEN HANG
    ELSE IF a = mask_1 THEN XOR(prod, b)
    ELSE IF AND(b, top) # {}
    THEN multmodp_norm(model, SHR(a, 1), XOR(SHL(b, 1), model.poly),
                       multmodp_acc(0 \in a, prod, b), top, fuel - 1)
    ELSE multmodp_norm(model, SHR(a, 1), SHL(b, 1),
                       multmodp_acc(0 \in a, prod, b), top, fuel - 1)

\* The product of the normal loop returned as it is, without the mask.
multmodp_unmasked(prod, width) == prod

\* prod &= ((top << 1) - 1), top being 1 << (width - 1).
multmodp_mask(prod, width) ==
    IF prod = HANG THEN HANG
    ELSE AND(prod, SUB(SHL(SHL(mask_1, width - 1), 1), mask_1))

multmodp(model, a, b) ==
    IF model.ref = 1
    THEN multmodp_ref(model, a, b, {}, SHL(mask_1, model.width - 1),
                      WORDBITS + 1)
    ELSE multmodp_mask(multmodp_norm(model, a, b, {},
                                     SHL(mask_1, model.width - 1),
                                     WORDBITS + 1),
                       model.width)

\* The entries of the combine table are computed ChunkLen at a time, which
\* keeps the evaluation shallow.
ChunkLen == 16

\* The index of the first entry of tab equal to x.
first_index(tab, x) ==
    CHOOSE j \in 1 .. Len(tab) :
        tab[j] = x /\ \A i \in 1 .. (j - 1) : tab[i] # x

\* The pass that takes the place after the first match as back.
table_combine_step_after(t, sq1) ==
    IF sq1 = HANG THEN [t EXCEPT !.hang = TRUE, !.done = TRUE]
    ELSE IF \E j \in 1 .. Len(t.table_comb) : t.table_comb[j] = sq1
    THEN [t EXCEPT !.cycle = Len(t.table_comb),
                   !.back = first_index(t.table_comb, sq1),
                   !.done = TRUE]
    ELSE [t EXCEPT !.table_comb = Append(t.table_comb, sq1), !.sq = sq1]

\* One pass of the while loop of crc_table_combine(), sq1 being the square
\* of the last entry: the search of the table for sq1, and the break or the
\* new entry.
table_combine_step(t, sq1) ==
    IF sq1 = HANG THEN [t EXCEPT !.hang = TRUE, !.done = TRUE]
    ELSE IF \E j \in 1 .. Len(t.table_comb) : t.table_comb[j] = sq1
    THEN [t EXCEPT !.cycle = Len(t.table_comb),
                   !.back = first_index(t.table_comb, sq1) - 1,
                   !.done = TRUE]
    ELSE [t EXCEPT !.table_comb = Append(t.table_comb, sq1), !.sq = sq1]

\* The while loop of crc_table_combine() up to stop entries: t.table_comb
\* holds the entries so far, t.sq the last of them, and t.done tells that
\* the loop was left, by its break or for good (hang).
RECURSIVE table_combine_loop(_, _, _)
table_combine_loop(model, t, stop) ==
    IF t.done \/ Len(t.table_comb) >= stop THEN t
    ELSE table_combine_loop(
             model, table_combine_step(t, multmodp(model, t.sq, t.sq)), stop)

RECURSIVE table_combine_upto(_, _, _)
table_combine_upto(model, t, stop) ==
    IF stop <= ChunkLen THEN table_combine_loop(model, t, stop)
    ELSE table_combine_loop(model,
                            table_combine_upto(model, t, stop - ChunkLen),
                            stop)

\* x^1, the first entry of the combine table.  For a reflected model of
\* width 1 the shift count width - 2 is negative, which C leaves undefined:
\* the shift unit either takes the count modulo WORDBITS or shifts every bit
\* out.
X1Outcomes(model) ==
    IF model.ref = 1
    THEN IF model.width >= 2 THEN {SHL(W(1), model.width - 2)}
         ELSE {SHL(W(1), WORDBITS - 1), {}}
    ELSE {W(2)}

\* What crc_table_combine() leaves in the model when its loop ended in t.
table_combine_result(t) ==
    [table_comb |-> t.table_comb,
     cycle |-> IF t.done THEN t.cycle ELSE Len(t.table_comb),
     back |-> t.back,
     hang |-> t.hang]

\* crc_table_combine() with sq as its first entry: table_comb (entry k of
\* the C array is table_comb[k + 1] here), cycle and back, and whether the
\* call never returns.
crc_table_combine(model, sq) ==
    table_combine_result(
        table_combine_upto(
            model,
            [table_comb |-> <<sq>>, sq |-> sq, cycle |-> 0, back |-> -1,
             hang |-> FALSE, done |-> FALSE],
            TableCombSize))

\* if (n & 1) crc = multmodp(model, model->table_comb[k], crc);
comb_mul(model, crc, n, k) ==
    IF n % 2 = 1 THEN multmodp(model, model.table_comb[k + 1], crc) ELSE crc

\* The for (;;) loop of crc_zeros(): crc is multiplied by table_comb[k] for
\* each one bit of n.  zeros_next is the rest of a pass, with the product
\* crc and n shifted down.
RECURSIVE zeros_walk(_, _, _, _)
RECURSIVE zeros_next(_, _, _, _)
zeros_walk(model, crc, n, k) ==
    zeros_next(model, comb_mul(model, crc, n, k), n \div 2, k)

zeros_next(model, crc, n, k) ==
    IF crc = HANG THEN HANG
    ELSE IF n = 0 THEN crc
    ELSE IF k + 1 = model.cycle
    THEN IF model.back = -1 THEN ABORT
         ELSE zeros_walk(model, crc, n, model.back)
    ELSE zeros_walk(model, crc, n, k + 1)

\* The for (;;) loop of x8nmodp().
RECURSIVE x8n_walk(_, _, _, _)
RECURSIVE x8n_next(_, _, _, _)
x8n_walk(model, xp, n, k) ==
    x8n_next(model, comb_mul(model, xp, n, k), n \div 2, k)

x8n_next(model, xp, n, k) ==
    IF xp = HANG THEN HANG
    ELSE IF n = 0 THEN xp
    ELSE IF k + 1 = model.cycle
    THEN IF model.back = -1 THEN ABORT
         ELSE x8n_walk(model, xp, n, model.back)
    ELSE x8n_walk(model, xp, n, k + 1)

\* The loops of crc_zeros() with the table walk begun one entry late.
zeros_loops_late(model, crc, n) ==
    IF n < 128 THEN
        IF model.ref = 1
        THEN bits_ref(AND(crc, ONES(model.width)), model.poly, n)
        ELSE AND(bits_norm(crc, model.poly, SHL(W(1), model.width - 1), n),
                 ONES(model.width))
    ELSE zeros_walk(model, AND(crc, ONES(model.width)), n, 1)

\* The loops of crc_zeros() on the pre-processed register crc:
\* while (n--) crc = crc & 1 ? (crc >> 1) ^ poly : crc >> 1;  and its
\* non-reflected twin are bits_ref and bits_norm with n passes.
zeros_loops(model, crc, n) ==
    IF n < 128 THEN
        IF model.ref = 1
        THEN bits_ref(AND(crc, ONES(model.width)), model.poly, n)
        ELSE AND(bits_norm(crc, model.poly, SHL(W(1), model.width - 1), n),
                 ONES(model.width))
    ELSE zeros_walk(model, AND(crc, ONES(model.width)), n, 0)

\* The post-processing of crc_zeros(), which a call that never returns or
\* aborts does not reach.
zeros_post(model, crc) ==
    IF ~IsWord(crc) THEN crc ELSE XOR(rev_word(model, crc), model.xorout)

crc_zeros(model, crc, n) ==
    zeros_post(model,
               zeros_loops(model, rev_word(model, XOR(crc, model.xorout)),
                           n))

\* x8nmodp() with its walk begun at table_comb[0], which gives x^n in place
\* of x^(8n).
x8nmodp_low(model, n) ==
    x8n_walk(model,
             IF model.ref = 1 THEN SHL(W(1), model.width - 1) ELSE W(1),
             n, 0)

\* int k = model->cycle > 3 ? 3 : model->cycle == 3 ? model->back :
\* model->cycle - 1;  with the start the smaller of 3 and cycle - 1.
x8n_start_min(model) == IF model.cycle > 3 THEN 3 ELSE model.cycle - 1

\* The index at which the walk of x8nmodp() starts.
x8n_start(model) ==
    IF model.cycle > 3 THEN 3
    ELSE IF model.cycle = 3 THEN model.back
    ELSE model.cycle - 1

x8nmodp(model, n) ==
    x8n_walk(model,
             IF model.ref = 1 THEN SHL(W(1), model.width - 1) ELSE W(1),
             n, x8n_start(model))

\* The indices at which the for (;;) loop of crc_zeros() and of x8nmodp()
\* reads table_comb[] when it is entered with n at index k: one read for
\* each one bit of n, the index stepping to back when it reaches cycle.
RECURSIVE walk_reads(_, _, _)
walk_reads(model, n, k) ==
    (IF n % 2 = 1 THEN {k} ELSE {})
    \cup (IF n \div 2 = 0 THEN {}
          ELSE IF k + 1 = model.cycle
          THEN IF model.back = -1 THEN {}
               ELSE walk_reads(model, n \div 2, model.back)
          ELSE walk_reads(model, n \div 2, k + 1))

\* multmodp(model, x8nmodp(model, len2), crc1) when x8nmodp() returned.
combine_mul(model, xp, crc1) ==
    IF IsWord(xp) THEN multmodp(model, xp, crc1) ELSE xp

\* The final reversal without the exclusive-or with crc2.
combine_join_alone(model, m, crc2) ==
    IF ~IsWord(m) THEN m ELSE rev_word(model, m)

\* The exclusive-or with crc2 and the final reversal.
combine_join(model, m, crc2) ==
    IF ~IsWord(m) THEN m
    ELSE rev_word(model, XOR(m, rev_word(model, crc2)))

crc_combine(model, crc1, crc2, len2) ==
    combine_join(model,
                 combine_mul(model, x8nmodp(model, len2),
                             rev_word(model, XOR(crc1, model.init))),
                 crc2)

\* ------------------------------------------------------------------------
\* crcdbl.c: the double-word bit-wise engine.  A double-word value is the
\* record [hi, lo] of its two words.
\* ------------------------------------------------------------------------

\* The shift up that carries nothing from the low word into the high one.
SHL_dbl_no_carry(a, n) == [hi |-> SHL(a.hi, n), lo |-> SHL(a.lo, n)]

\* SHL(ah, al, n) and SHR(ah, al, n) of crcdbl.c, 0 <= n < WORDBITS.
SHL_dbl(a, n) ==
    IF n = 0 THEN a
    ELSE [hi |-> OR(SHL(a.hi, n), SHR(a.lo, WORDBITS - n)),
          lo |-> SHL(a.lo, n)]

SHR_dbl(a, n) ==
    IF n = 0 THEN a
    ELSE [hi |-> SHR(a.hi, n),
          lo |-> OR(SHR(a.lo, n), SHL(a.hi, WORDBITS - n))]

\* k passes of the BIGREF macro on the pair hi, lo:
\*   tmp = lo & 1; lo = (lo >> 1) | (hi << (WORDBITS - 1)); hi >>= 1;
\*   if (tmp) { lo ^= poly_lo; hi ^= poly_hi; }
RECURSIVE BIGREF(_, _, _, _)
RECURSIVE BIGREF_rest(_, _, _)
BIGREF(hi, lo, poly, k) ==
    IF k = 0 \/ ~IsWord(lo) THEN [hi |-> hi, lo |-> lo]
    ELSE IF k > 8 THEN BIGREF_rest(BIGREF(hi, lo, poly, 8), poly, k - 8)
    ELSE IF 0 \in lo
    THEN BIGREF(XOR(SHR(hi, 1), poly.hi),
                XOR(OR(SHR(lo, 1), SHL(hi, WORDBITS - 1)), poly.lo),
                poly, k - 1)
    ELSE BIGREF(SHR(hi, 1), OR(SHR(lo, 1), SHL(hi, WORDBITS - 1)),
                poly, k - 1)

\* The k passes that are left after c.
BIGREF_rest(c, poly, k) == BIGREF(c.hi, c.lo, poly, k)

\* k passes of the BIGNORM macro on the pair hi, lo:
\*   tmp = hi & mask; hi = (hi << 1) | (lo >> (WORDBITS - 1)); lo <<= 1;
\*   if (tmp) { lo ^= poly_lo; hi ^= poly_hi; }
RECURSIVE BIGNORM(_, _, _, _, _)
RECURSIVE BIGNORM_rest(_, _, _, _)
BIGNORM(hi, lo, poly, mask, k) ==
    IF k = 0 \/ ~IsWord(hi) THEN [hi |-> hi, lo |-> lo]
    ELSE IF k > 8
    THEN BIGNORM_rest(BIGNORM(hi, lo, poly, mask, 8), poly, mask, k - 8)
    ELSE IF AND(hi, mask) # {}
    THEN BIGNORM(XOR(OR(SHL(hi, 1), SHR(lo, WORDBITS - 1)), poly.hi),
                 XOR(SHL(lo, 1), poly.lo), poly, mask, k - 1)
    ELSE BIGNORM(OR(SHL(hi, 1), SHR(lo, WORDBITS - 1)), SHL(lo, 1),
                 poly, mask, k - 1)

BIGNORM_rest(c, poly, mask, k) == BIGNORM(c.hi, c.lo, poly, mask, k)

\* BIGCROSS is BIGNORM with the mask 0x80.
BIGCROSS(hi, lo, poly, k) == BIGNORM(hi, lo, poly, ByteWord[128], k)

RECURSIVE dbl_ref(_, _, _, _, _)
dbl_ref(c, poly, dat, i, len) ==
    IF len = 0 \/ ~IsDbl(c) THEN c
    ELSE dbl_ref(BIGREF(c.hi, XOR(c.lo, ByteWord[dat[i]]), poly, 8),
                 poly, dat, i + 1, len - 1)

RECURSIVE dbl_cross(_, _, _, _, _)
dbl_cross(c, poly, dat, i, len) ==
    IF len = 0 \/ ~IsDbl(c) THEN c
    ELSE dbl_cross(BIGCROSS(XOR(c.hi, ByteWord[dat[i]]), c.lo, poly, 8),
                   poly, dat, i + 1, len - 1)

RECURSIVE dbl_norm(_, _, _, _, _, _, _)
dbl_norm(c, poly, mask, shift, dat, i, len) ==
    IF len = 0 \/ ~IsDbl(c) THEN c
    ELSE dbl_norm(BIGNORM(XOR(c.hi, SHL(ByteWord[dat[i]], shift)), c.lo,
                          poly, mask, 8),
                  poly, mask, shift, dat, i + 1, len - 1)

\* The double-word register with its high word masked to the width.
dbl_mask(model, c) ==
    [hi |-> AND(c.hi, ONES(model.width - WORDBITS)), lo |-> c.lo]

\* The polynomial as a double word.
dbl_poly(model) == [hi |-> model.poly_hi, lo |-> model.poly]

\* The pre- and post-processing shared by crc_bitwise_dbl and crc_zeros_dbl.
dbl_pre(model, crc) ==
    reverse_if(model.rev, XOR(crc.hi, model.xorout_hi),
               XOR(crc.lo, model.xorout), model.width)

dbl_xorout(model, c) ==
    [hi |-> XOR(c.hi, model.xorout_hi), lo |-> XOR(c.lo, model.xorout)]

dbl_post(model, c) ==
    dbl_xorout(model, reverse_if(model.rev, c.hi, c.lo, model.width))

\* The three loops of crc_bitwise_dbl() on the pre-processed register c.
dbl_loops(model, c, dat, len) ==
    IF model.ref = 1 THEN
        dbl_ref(dbl_mask(model, c), dbl_poly(model), dat, 1, len)
    ELSE IF model.width - WORDBITS <= 8 THEN
        dbl_mask(model,
                 SHR_dbl(dbl_cross(SHL_dbl(c, 8 - (model.width - WORDBITS)),
                                   SHL_dbl(dbl_poly(model),
                                           8 - (model.width - WORDBITS)),
                                   dat, 1, len),
                         8 - (model.width - WORDBITS)))
    ELSE
        dbl_mask(model,
                 dbl_norm(c, dbl_poly(model),
                          SHL(W(1), model.width - WORDBITS - 1),
                          model.width - WORDBITS - 8, dat, 1, len))

crc_bitwise_dbl(model, crc, dat, len) ==
    IF model.width <= WORDBITS
    THEN [hi |-> {}, lo |-> crc_bitwise(model, crc.lo, dat, len)]
    ELSE IF dat = NULL THEN [hi |-> model.init_hi, lo |-> model.init]
    ELSE dbl_post(model, dbl_loops(model, dbl_pre(model, crc), dat, len))

\* The two loops of crc_zeros_dbl() on the pre-processed register c.
zeros_dbl_ref(model, c, poly, count) ==
    BIGREF(AND(c.hi, ONES(model.width - WORDBITS)), c.lo, poly, count)

zeros_dbl_loops(model, c, count) ==
    IF model.ref = 1
    THEN zeros_dbl_ref(model, c, dbl_poly(model), count)
    ELSE dbl_mask(model,
                  BIGNORM_rest(c, dbl_poly(model),
                               SHL(W(1), model.width - WORDBITS - 1), count))

\* crc_zeros_dbl() without the pre-processing of the CRC.
crc_zeros_dbl_raw(model, crc, count) ==
    IF model.width <= WORDBITS
    THEN [hi |-> {}, lo |-> crc_zeros(model, crc.lo, count)]
    ELSE dbl_post(model, zeros_dbl_loops(model, crc, count))

crc_zeros_dbl(model, crc, count) ==
    IF model.width <= WORDBITS
    THEN [hi |-> {}, lo |-> crc_zeros(model, crc.lo, count)]
    ELSE dbl_post(model, zeros_dbl_loops(model, dbl_pre(model, crc), count))

\* ------------------------------------------------------------------------
\* The state
\* ------------------------------------------------------------------------

VARIABLES
    pc,       \* where the caller is in the life of the model
    line,     \* the text of the model description being read
    flags,    \* what read_model() noted of the line: got, bad, rep, unk
    ret,      \* what read_model() returned, -1 before it is called
    parm,     \* the model record as read_model() left it
    model,    \* the model_t record
    little,   \* 1 on a little-endian host, 0 on a big-endian one, -1 unread
    act       \* the caller's running computation or its last call

vars == <<pc, line, flags, ret, parm, model, little, act>>

\* ------------------------------------------------------------------------
\* Inputs
\* ------------------------------------------------------------------------

\* The nine bytes "123456789" of the test buffer of crctest.c.
test == <<49, 50, 51, 52, 53, 54, 55, 56, 57>>

\* The largest number of zero bytes given to crc_zeros().
MaxZeroBytes == 17

\* The largest number of calls on data in one computation.
MaxCalls == 2

\* The parameter values of the models examined: the width with a polynomial
\* (high word, low word) of that width whose low bit is one.
Polys ==
    { <<1, {}, W(1)>>, <<3, {}, W(3)>>, <<8, {}, W(7)>>,
      <<12, {}, W(2063)>>, <<32, {}, W(79764919)>>,
      <<33, {}, W(9)>>, <<48, W(9), W2(4660, 22137)>>,
      <<64, W2(17136, 57835), W2(43498, 13971)>> }

\* A double-word value of the given width: zero, one, or all ones.
Val(kind, width) ==
    IF kind = "zero" THEN [hi |-> {}, lo |-> {}]
    ELSE IF kind = "one" THEN [hi |-> {}, lo |-> W(1)]
    ELSE IF width <= WORDBITS THEN [hi |-> {}, lo |-> ONES(width)]
    ELSE [hi |-> ONES(width - WORDBITS), lo |-> Bits]

\* The (init, xorout) pairs examined.
InitXor == { <<"zero", "zero">>, <<"ones", "one">>, <<"one", "ones">> }

\* Table fields before their builder has run.
NoTable == <<>>

\* The record read_model() leaves for the given parameters: ref holds refin
\* and rev holds refout until process_model() runs.
ReadRecord(width, poly_hi, poly, init, refin, refout, xorout) ==
    [width |-> width, ref |-> refin, rev |-> refout,
     poly |-> poly, poly_hi |-> poly_hi,
     init |-> init.lo, init_hi |-> init.hi,
     xorout |-> xorout.lo, xorout_hi |-> xorout.hi,
     check |-> {}, check_hi |-> {}, res |-> {}, res_hi |-> {},
     name |-> <<>>,
     table_byte |-> NoTable, table_word |-> NoTable,
     table_comb |-> NoTable, cycle |-> 0, back |-> 0]

Models ==
    { ReadRecord(p[1], p[2], p[3], Val(ix[1], p[1]), refin, refout,
                 Val(ix[2], p[1])) :
        p \in Polys, ix \in InitXor, refin \in {0, 1}, refout \in {0, 1} }

\* The crc values a caller passes that did not come from an earlier call.
CrcArgs(width) ==
    IF width <= WORDBITS
    THEN { [hi |-> {}, lo |-> W(1)], [hi |-> {}, lo |-> ONES(width)] }
    ELSE { [hi |-> {}, lo |-> W(1)],
           [hi |-> ONES(width - WORDBITS), lo |-> Bits] }

Word0 == [hi |-> {}, lo |-> {}]

\* No computation under way.
Idle ==
    [kind |-> "none", eng |-> "none", null |-> FALSE, crc0 |-> Word0,
     off |-> 0, pos |-> 0, calls |-> 0, acc |-> Word0, arg |-> Word0,
     n |-> 0, crc1 |-> {}, crc2 |-> {}]

Engines == {"bitwise", "bytewise", "wordwise", "bitwise_dbl"}

\* One call of engine eng on len bytes at address addr.
Engine(eng, m, crc, dat, len, addr, host) ==
    IF eng = "bitwise" THEN [hi |-> {}, lo |-> crc_bitwise(m, crc.lo, dat, len)]
    ELSE IF eng = "bytewise"
    THEN [hi |-> {}, lo |-> crc_bytewise(m, crc.lo, dat, len)]
    ELSE IF eng = "wordwise"
    THEN [hi |-> {}, lo |-> crc_wordwise(m, crc.lo, dat, len, addr, host)]
    ELSE crc_bitwise_dbl(m, crc, dat, len)

\* The single-word routines are for widths up to WORDBITS only.
Narrow(m) == m.width <= WORDBITS

\* The model is ready for the CRC routines: normalised and, when it fits a
\* word, with its byte-wise and word-wise tables.
Usable == pc = IF Narrow(model) THEN "word" ELSE "processed"

\* ------------------------------------------------------------------------
\* Actions
\* ------------------------------------------------------------------------

\* The model had the routine shifted the polynomial in place, not in its
\* local copy.
model_shifted(m) ==
    [m EXCEPT !.poly = IF m.ref = 1 THEN SHR(m.poly, 1) ELSE SHL(m.poly, 1)]

\* The model as a call of a CRC routine leaves it: crc_bitwise(),
\* crc_bytewise(), crc_wordwise(), crc_bitwise_dbl(), crc_zeros(),
\* crc_zeros_dbl() and crc_combine() copy what they change (poly, crc) into
\* locals and store nothing through model.
model_kept(m) == m

Init ==
    /\ pc = "read"
    /\ line = <<>>
    /\ flags = [got |-> ALL, bad |-> {}, rep |-> {}, unk |-> NULL]
    /\ ret = 0
    /\ model \in Models
    /\ parm = model
    /\ little = -1
    /\ act = Idle

ProcessModel ==
    /\ pc = "read"
    /\ ret = 0
    /\ model' = process_model(model)
    /\ pc' = "processed"
    /\ UNCHANGED <<line, flags, ret, parm, little, act>>

TableBytewise ==
    /\ pc = "processed"
    /\ Narrow(model)
    /\ model' = [model EXCEPT !.table_byte = crc_table_bytewise(model)]
    /\ pc' = "byte"
    /\ UNCHANGED <<line, flags, ret, parm, little, act>>

\* crctest.c: little = *((unsigned char *)(&little)), then the tables.
TableWordwise ==
    /\ pc = "byte"
    /\ \E host \in {0, 1} :
          /\ little' = host
          /\ model' = [model EXCEPT
                          !.table_word =
                              crc_table_wordwise(model, host, WORDBITS)]
    /\ pc' = "word"
    /\ UNCHANGED <<line, flags, ret, parm, act>>

\* The model as crc_table_combine() leaves it when its loop ended as t
\* tells: a call that never returns has set neither cycle nor back.
combine_store(m, t) ==
    IF t.hang THEN [m EXCEPT !.table_comb = t.table_comb]
    ELSE [m EXCEPT !.table_comb = t.table_comb, !.cycle = t.cycle,
                   !.back = t.back]

\* Where the caller is after a call that returned r, hung or aborted.
Outcome(r, at) ==
    IF r = HANG THEN "hung" ELSE IF r = ABORT THEN "aborted" ELSE at

TableCombineEnd(t) ==
    /\ pc' = IF t.hang THEN "hung" ELSE "comb"
    /\ model' = combine_store(model, t)

TableCombine ==
    /\ pc = "word"
    /\ act.kind = "none"
    /\ \E sq \in X1Outcomes(model) :
          TableCombineEnd(crc_table_combine(model, sq))
    /\ UNCHANGED <<line, flags, ret, parm, little, act>>

\* The caller's record of a call with data = NULL that returned r.
null_call(eng, crc, len, r) ==
    [Idle EXCEPT !.kind = "chain", !.eng = eng, !.null = TRUE, !.crc0 = r,
                 !.acc = r, !.arg = crc, !.n = len]

\* A call with data = NULL: the crc and len arguments are the caller's.
CallNull ==
    /\ Usable
    /\ act.kind = "none"
    /\ \E eng \in Engines, crc \in CrcArgs(model.width), len \in {0, 9} :
          /\ eng # "bitwise_dbl" => Narrow(model)
          /\ act' = null_call(eng, crc, len,
                              Engine(eng, model, crc, NULL, len, 0, little))
    /\ model' = model_kept(model)
    /\ UNCHANGED <<pc, line, flags, ret, parm, little>>

\* The first call on data with a crc of the caller's own, on the first len
\* bytes of the test buffer placed at address off.
CallFirst ==
    /\ Usable
    /\ act.kind = "none"
    /\ \E eng \in Engines, crc \in CrcArgs(model.width),
          len \in 0 .. Len(test), off \in 0 .. (WORDCHARS - 1) :
          /\ eng # "bitwise_dbl" => Narrow(model)
          /\ eng # "wordwise" => off = 0
          /\ act' = [Idle EXCEPT
                        !.kind = "chain", !.eng = eng, !.crc0 = crc,
                        !.off = off, !.pos = len, !.calls = 1,
                        !.acc = Engine(eng, model, crc, SubSeq(test, 1, len),
                                       len, off, little)]
    /\ model' = model_kept(model)
    /\ UNCHANGED <<pc, line, flags, ret, parm, little>>

\* The next chunk of a computation begun with the NULL call: the crc is the
\* one the last call returned, the data the next len bytes of the buffer.
CallNext ==
    /\ Usable
    /\ act.kind = "chain"
    /\ act.null
    /\ act.calls < MaxCalls
    /\ \E len \in 0 .. (Len(test) - act.pos), off \in 0 .. (WORDCHARS - 1) :
          /\ off = IF act.calls = 0 /\ act.eng = "wordwise" THEN off
                   ELSE act.off
          /\ act' = [act EXCEPT
                        !.off = off, !.pos = act.pos + len,
                        !.calls = act.calls + 1,
                        !.arg = Word0, !.n = 0,
                        !.acc = Engine(act.eng, model, act.acc,
                                       SubSeq(test, act.pos + 1, act.pos + len),
                                       len, off + act.pos, little)]
    /\ model' = model_kept(model)
    /\ UNCHANGED <<pc, line, flags, ret, parm, little>>

\* crc_zeros() on 8k zero bits, the combine table being built.
CallZerosEnd(crc, n, r) ==
    /\ act' = [Idle EXCEPT !.kind = "zeros", !.crc0 = crc, !.n = n,
                           !.acc = [hi |-> {}, lo |-> r]]
    /\ pc' = Outcome(r, pc)

CallZeros ==
    /\ pc = "comb"
    /\ act.kind = "none"
    /\ \E crc \in CrcArgs(model.width) \cup {[hi |-> {}, lo |-> model.init]},
          k \in 0 .. MaxZeroBytes :
          CallZerosEnd(crc, 8 * k, crc_zeros(model, crc.lo, 8 * k))
    /\ model' = model_kept(model)
    /\ UNCHANGED <<line, flags, ret, parm, little>>

CallCombineEnd(len1, len2, crc, crc1, crc2, r) ==
    /\ act' = [Idle EXCEPT !.kind = "combine",
                           !.crc0 = [hi |-> {}, lo |-> crc],
                           !.crc1 = crc1, !.crc2 = crc2,
                           !.pos = len1, !.n = len2,
                           !.acc = [hi |-> {}, lo |-> r]]
    /\ pc' = Outcome(r, pc)

\* crc_combine() on the CRCs of the two parts, crc being that of the whole.
CallCombineMid(len1, len2, crc, crc1, crc2) ==
    CallCombineEnd(len1, len2, crc, crc1, crc2,
                   crc_combine(model, crc1, crc2, len2))

\* The three CRCs, each begun with the initial value init.
CallCombineFrom(len1, len2, init) ==
    CallCombineMid(
        len1, len2,
        crc_bytewise(model, init, SubSeq(test, 1, len1 + len2), len1 + len2),
        crc_bytewise(model, init, SubSeq(test, 1, len1), len1),
        crc_bytewise(model, init, SubSeq(test, len1 + 1, len1 + len2), len2))

\* The combination test of crctest.c on the first len1 + len2 bytes of the
\* test buffer: the CRC of the whole, of the two parts, and crc_combine().
CallCombine ==
    /\ pc = "comb"
    /\ act.kind = "none"
    /\ \E len1 \in 0 .. Len(test) :
       \E len2 \in 0 .. (Len(test) - len1) :
          CallCombineFrom(len1, len2, crc_bytewise(model, {}, NULL, 0))
    /\ model' = model_kept(model)
    /\ UNCHANGED <<line, flags, ret, parm, little>>

\* The caller's record of the residue computed from the register z.
residue_call(m, z) ==
    [Idle EXCEPT !.kind = "residue", !.n = m.width,
                 !.acc = [hi |-> XOR(z.hi, m.xorout_hi),
                          lo |-> XOR(z.lo, m.xorout)]]

\* The residue computation of crctest.c: crc = crc_hi = 0, crc_zeros_dbl()
\* over width bits, then the exclusive-or with xorout.
CallResidue ==
    /\ Usable
    /\ act.kind = "none"
    /\ act' = residue_call(model, crc_zeros_dbl(model, Word0, model.width))
    /\ model' = model_kept(model)
    /\ UNCHANGED <<pc, line, flags, ret, parm, little>>

\* The caller is done with its computation and free to begin another.
Drop ==
    /\ act.kind # "none"
    /\ act' = Idle
    /\ UNCHANGED <<pc, line, flags, ret, parm, model, little>>

Next ==
    \/ ProcessModel
    \/ TableBytewise
    \/ TableWordwise
    \/ TableCombine
    \/ CallNull
    \/ CallFirst
    \/ CallNext
    \/ CallZeros
    \/ CallCombine
    \/ CallResidue
    \/ Drop

Spec == Init /\ [][Next]_vars

\* The calls of the engines alone: a model is prepared and every call is the
\* first of its computation.
NextWord ==
    \/ ProcessModel
    \/ TableBytewise
    \/ TableWordwise
    \/ CallFirst
    \/ Drop

SpecWord == Init /\ [][NextWord]_vars

\* ------------------------------------------------------------------------
\* crctest.c on a line of the catalogue: read_model(), then the tests
\* ------------------------------------------------------------------------

\* model.h: width=16 poly=0x1021 init=0x0000 refin=true refout=true
\* xorout=0x0000 check=0x2189 residue=0x0000 name="KERMIT"
kermit_full ==
    <<119, 105, 100, 116, 104, 61, 49, 54, 32, 112, 111, 108, 121, 61, 48,
      120, 49, 48, 50, 49, 32, 105, 110, 105, 116, 61, 48, 120, 48, 48,
      48, 48, 32, 114, 101, 102, 105, 110, 61, 116, 114, 117, 101, 32,
      114, 101, 102, 111, 117, 116, 61, 116, 114, 117, 101, 32, 120, 111,
      114, 111, 117, 116, 61, 48, 120, 48, 48, 48, 48, 32, 99, 104, 101,
      99, 107, 61, 48, 120, 50, 49, 56, 57, 32, 114, 101, 115, 105, 100,
      117, 101, 61, 48, 120, 48, 48, 48, 48, 32, 110, 97, 109, 101, 61,
      34, 75, 69, 82, 77, 73, 84, 34>>

\* model.h: w=16 p=4129 r=t c=8585 n=KERMIT
kermit_short ==
    <<119, 61, 49, 54, 32, 112, 61, 52, 49, 50, 57, 32, 114, 61, 116, 32,
      99, 61, 56, 53, 56, 53, 32, 110, 61, 75, 69, 82, 77, 73, 84>>

\* The six parameters of KERMIT alone:
\* width=16 poly=0x1021 init=0x0000 refin=true refout=true xorout=0x0000
kermit_parms ==
    <<119, 105, 100, 116, 104, 61, 49, 54, 32, 112, 111, 108, 121, 61, 48,
      120, 49, 48, 50, 49, 32, 105, 110, 105, 116, 61, 48, 120, 48, 48,
      48, 48, 32, 114, 101, 102, 105, 110, 61, 116, 114, 117, 101, 32,
      114, 101, 102, 111, 117, 116, 61, 116, 114, 117, 101, 32, 120, 111,
      114, 111, 117, 116, 61, 48, 120, 48, 48, 48, 48>>

\* width=32 poly=0x04c11db7 init=0xffffffff refin=true refout=true
\* xorout=0xffffffff check=0xcbf43926 residue=0xdebb20e3
\* name="CRC-32/ISO-HDLC"
crc32_hdlc ==
    <<119, 105, 100, 116, 104, 61, 51, 50, 32, 112, 111, 108, 121, 61, 48,
      120, 48, 52, 99, 49, 49, 100, 98, 55, 32, 105, 110, 105, 116, 61,
      48, 120, 102, 102, 102, 102, 102, 102, 102, 102, 32, 114, 101, 102,
      105, 110, 61, 116, 114, 117, 101, 32, 114, 101, 102, 111, 117, 116,
      61, 116, 114, 117, 101, 32, 120, 111, 114, 111, 117, 116, 61, 48,
      120, 102, 102, 102, 102, 102, 102, 102, 102, 32, 99, 104, 101, 99,
      107, 61, 48, 120, 99, 98, 102, 52, 51, 57, 50, 54, 32, 114, 101,
      115, 105, 100, 117, 101, 61, 48, 120, 100, 101, 98, 98, 50, 48, 101,
      51, 32, 110, 97, 109, 101, 61, 34, 67, 82, 67, 45, 51, 50, 47, 73,
      83, 79, 45, 72, 68, 76, 67, 34>>

\* The lines given to crctest.
Catalogue == {kermit_full, kermit_short, kermit_parms, crc32_hdlc}

\* crctest.c: model_t model; model.name = NULL; before a line is read.
InitCat ==
    /\ pc = "line"
    /\ line \in Catalogue
    /\ flags = [got |-> {}, bad |-> {}, rep |-> {}, unk |-> NULL]
    /\ ret = 1
    /\ model = Blank
    /\ parm = Blank
    /\ little = -1
    /\ act = Idle

\* What read_model() returned as r is kept: the model, and its return value.
ReadModelEnd(r) ==
    /\ model' = r.m
    /\ parm' = r.m
    /\ ret' = r.ret
    /\ flags' = [got |-> r.got, bad |-> r.bad, rep |-> r.rep, unk |-> r.unk]

\* crctest.c: int ret = read_model(&model, line, 0);
ReadModel ==
    /\ pc = "line"
    /\ ReadModelEnd(read_model(model, line, 0))
    /\ pc' = "read"
    /\ UNCHANGED <<line, little, act>>

NextCat ==
    \/ ReadModel
    \/ ProcessModel
    \/ TableBytewise
    \/ TableWordwise
    \/ TableCombine
    \/ CallNull
    \/ CallFirst
    \/ CallNext
    \/ CallZeros
    \/ CallCombine
    \/ CallResidue
    \/ Drop

SpecCat == InitCat /\ [][NextCat]_vars

\* ------------------------------------------------------------------------
\* Calls of reverse() on words and bit counts of the caller's choice
\* ------------------------------------------------------------------------

\* The words given to reverse().
ReverseArgs ==
    { W(1), Bits, W2(4660, 22136), W2(32768, 1), mask_aaaaaaaa,
      W2(65535, 0), W(4129), W2(57005, 48879) }

InitReverse ==
    /\ pc = "line"
    /\ line = <<>>
    /\ flags = [got |-> {}, bad |-> {}, rep |-> {}, unk |-> NULL]
    /\ ret = 1
    /\ model = Blank
    /\ parm = Blank
    /\ little = -1
    /\ act = Idle

\* reverse(x, n)
CallReverse ==
    /\ act.kind = "none"
    /\ \E x \in ReverseArgs, n \in 1 .. (2 * WORDBITS) :
          act' = [Idle EXCEPT !.kind = "reverse", !.arg = [hi |-> {}, lo |-> x],
                              !.n = n, !.calls = 1,
                              !.acc = [hi |-> {}, lo |-> reverse(x, n)]]
    /\ UNCHANGED <<pc, line, flags, ret, parm, model, little>>

\* reverse() again, on what it returned and with the same n.
CallReverseAgain ==
    /\ act.kind = "reverse"
    /\ act.calls = 1
    /\ act' = [act EXCEPT
                   !.calls = 2,
                   !.acc = [hi |-> {}, lo |-> reverse(act.acc.lo, act.n)]]
    /\ UNCHANGED <<pc, line, flags, ret, parm, model, little>>

NextReverse ==
    \/ CallReverse
    \/ CallReverseAgain
    \/ Drop

SpecReverse == InitReverse /\ [][NextReverse]_vars

\* ------------------------------------------------------------------------
\* Lines given to read_model(): spellings, faults and parameter names
\* ------------------------------------------------------------------------

\* Lines with upper-case letters in parameter names and values.
CaseLines ==
    {
      \* WIDTH=16 POLY=0X1021 INIT=0XFFFF REFIN=TRUE REFOUT=TRUE
      \* XOROUT=0XABCD CHECK=0X2189 RESIDUE=0X0 NAME=k
      <<87, 73, 68, 84, 72, 61, 49, 54, 32, 80, 79, 76, 89, 61, 48, 88, 49,
        48, 50, 49, 32, 73, 78, 73, 84, 61, 48, 88, 70, 70, 70, 70, 32, 82,
        69, 70, 73, 78, 61, 84, 82, 85, 69, 32, 82, 69, 70, 79, 85, 84, 61,
        84, 82, 85, 69, 32, 88, 79, 82, 79, 85, 84, 61, 48, 88, 65, 66, 67,
        68, 32, 67, 72, 69, 67, 75, 61, 48, 88, 50, 49, 56, 57, 32, 82, 69,
        83, 73, 68, 85, 69, 61, 48, 88, 48, 32, 78, 65, 77, 69, 61, 107>>,
      \* w=16 p=0x1021 r=T c=0x2189 n=k
      <<119, 61, 49, 54, 32, 112, 61, 48, 120, 49, 48, 50, 49, 32, 114, 61,
        84, 32, 99, 61, 48, 120, 50, 49, 56, 57, 32, 110, 61, 107>>,
      \* w=16 p=0x1021 refin=True refout=False c=0x2189 n=k
      <<119, 61, 49, 54, 32, 112, 61, 48, 120, 49, 48, 50, 49, 32, 114, 101,
        102, 105, 110, 61, 84, 114, 117, 101, 32, 114, 101, 102, 111, 117,
        116, 61, 70, 97, 108, 115, 101, 32, 99, 61, 48, 120, 50, 49, 56, 57,
        32, 110, 61, 107>>,
      \* W=16 P=0x1021 REFIN=false REFOUT=FALSE X=0xAbCd C=0X2189 N=k
      <<87, 61, 49, 54, 32, 80, 61, 48, 120, 49, 48, 50, 49, 32, 82, 69, 70,
        73, 78, 61, 102, 97, 108, 115, 101, 32, 82, 69, 70, 79, 85, 84, 61,
        70, 65, 76, 83, 69, 32, 88, 61, 48, 120, 65, 98, 67, 100, 32, 67,
        61, 48, 88, 50, 49, 56, 57, 32, 78, 61, 107>> }

\* Lines of valid models: the widest, the narrowest, a negative value.
ValidLines ==
    {
      \* w=64 p=0x42f0e1eba9ea3693 r=f c=0x6c40df5f0b497347 n=ecma
      <<119, 61, 54, 52, 32, 112, 61, 48, 120, 52, 50, 102, 48, 101, 49,
        101, 98, 97, 57, 101, 97, 51, 54, 57, 51, 32, 114, 61, 102, 32, 99,
        61, 48, 120, 54, 99, 52, 48, 100, 102, 53, 102, 48, 98, 52, 57, 55,
        51, 52, 55, 32, 110, 61, 101, 99, 109, 97>>,
      \* w=1 p=1 r=t c=0 n=a
      <<119, 61, 49, 32, 112, 61, 49, 32, 114, 61, 116, 32, 99, 61, 48, 32,
        110, 61, 97>>,
      \* w=16 p=0x1021 i=-1 r=f c=1 n=k
      <<119, 61, 49, 54, 32, 112, 61, 48, 120, 49, 48, 50, 49, 32, 105, 61,
        45, 49, 32, 114, 61, 102, 32, 99, 61, 49, 32, 110, 61, 107>> }

\* Lines with a syntax error, an unknown parameter, a repeated one.
SyntaxLines ==
    {
      \* w=16 p=0x1021 r=t c=1 n=k junk
      <<119, 61, 49, 54, 32, 112, 61, 48, 120, 49, 48, 50, 49, 32, 114, 61,
        116, 32, 99, 61, 49, 32, 110, 61, 107, 32, 106, 117, 110, 107>>,
      \* w=16 p=0x1021 r=t c=1 n="k
      <<119, 61, 49, 54, 32, 112, 61, 48, 120, 49, 48, 50, 49, 32, 114, 61,
        116, 32, 99, 61, 49, 32, 110, 61, 34, 107>>,
      \* w=16 p=0x1021 r=t c=1 n=k q=1
      <<119, 61, 49, 54, 32, 112, 61, 48, 120, 49, 48, 50, 49, 32, 114, 61,
        116, 32, 99, 61, 49, 32, 110, 61, 107, 32, 113, 61, 49>>,
      \* w=16 w=8 p=0x1021 r=t c=1 n=k
      <<119, 61, 49, 54, 32, 119, 61, 56, 32, 112, 61, 48, 120, 49, 48, 50,
        49, 32, 114, 61, 116, 32, 99, 61, 49, 32, 110, 61, 107>> }

\* Lines that lack a required parameter.
MissingLines ==
    {
      \* w=16 p=0x1021 c=1 n=k
      <<119, 61, 49, 54, 32, 112, 61, 48, 120, 49, 48, 50, 49, 32, 99, 61,
        49, 32, 110, 61, 107>>,
      \* p=0x1021 r=t c=1 n=k
      <<112, 61, 48, 120, 49, 48, 50, 49, 32, 114, 61, 116, 32, 99, 61, 49,
        32, 110, 61, 107>>,
      \* w=16 r=t c=1 n=k
      <<119, 61, 49, 54, 32, 114, 61, 116, 32, 99, 61, 49, 32, 110, 61, 107>>,
      \* w=16 p=0x1021 r=t n=k
      <<119, 61, 49, 54, 32, 112, 61, 48, 120, 49, 48, 50, 49, 32, 114, 61,
        116, 32, 110, 61, 107>>,
      \* w=16 p=0x1021 r=t c=1
      <<119, 61, 49, 54, 32, 112, 61, 48, 120, 49, 48, 50, 49, 32, 114, 61,
        116, 32, 99, 61, 49>> }

\* Lines with a value out of range: the width, an even polynomial, and
\* values of more than width bits.
RangeLines ==
    {
      \* w=0 p=1 r=t c=0 n=k
      <<119, 61, 48, 32, 112, 61, 49, 32, 114, 61, 116, 32, 99, 61, 48, 32,
        110, 61, 107>>,
      \* w=65 p=1 r=t c=0 n=k
      <<119, 61, 54, 53, 32, 112, 61, 49, 32, 114, 61, 116, 32, 99, 61, 48,
        32, 110, 61, 107>>,
      \* w=65552 p=0x1021 r=t c=1 n=k
      <<119, 61, 54, 53, 53, 53, 50, 32, 112, 61, 48, 120, 49, 48, 50, 49,
        32, 114, 61, 116, 32, 99, 61, 49, 32, 110, 61, 107>>,
      \* w=16 p=0x1020 r=t c=1 n=k
      <<119, 61, 49, 54, 32, 112, 61, 48, 120, 49, 48, 50, 48, 32, 114, 61,
        116, 32, 99, 61, 49, 32, 110, 61, 107>>,
      \* w=8 p=0x107 r=t c=1 n=k
      <<119, 61, 56, 32, 112, 61, 48, 120, 49, 48, 55, 32, 114, 61, 116, 32,
        99, 61, 49, 32, 110, 61, 107>>,
      \* w=16 p=0x1021 i=0x10000 r=t c=1 n=k
      <<119, 61, 49, 54, 32, 112, 61, 48, 120, 49, 48, 50, 49, 32, 105, 61,
        48, 120, 49, 48, 48, 48, 48, 32, 114, 61, 116, 32, 99, 61, 49, 32,
        110, 61, 107>>,
      \* w=16 p=0x1021 r=t x=0x10000 c=1 n=k
      <<119, 61, 49, 54, 32, 112, 61, 48, 120, 49, 48, 50, 49, 32, 114, 61,
        116, 32, 120, 61, 48, 120, 49, 48, 48, 48, 48, 32, 99, 61, 49, 32,
        110, 61, 107>>,
      \* w=16 p=0x1021 r=t c=0x10000 n=k
      <<119, 61, 49, 54, 32, 112, 61, 48, 120, 49, 48, 50, 49, 32, 114, 61,
        116, 32, 99, 61, 48, 120, 49, 48, 48, 48, 48, 32, 110, 61, 107>>,
      \* w=16 p=0x1021 r=t c=1 res=0x10000 n=k
      <<119, 61, 49, 54, 32, 112, 61, 48, 120, 49, 48, 50, 49, 32, 114, 61,
        116, 32, 99, 61, 49, 32, 114, 101, 115, 61, 48, 120, 49, 48, 48, 48,
        48, 32, 110, 61, 107>> }

\* Lines with faults in the value or the number of a parameter.
\* w=16 p=0x1021 i=zz r=t c=1 n=k
fault_init ==
    <<119, 61, 49, 54, 32, 112, 61, 48, 120, 49, 48, 50, 49, 32, 105, 61,
      122, 122, 32, 114, 61, 116, 32, 99, 61, 49, 32, 110, 61, 107>>

\* w=16 p=0x10g1 r=t c=1 n=k
fault_poly ==
    <<119, 61, 49, 54, 32, 112, 61, 48, 120, 49, 48, 103, 49, 32, 114, 61,
      116, 32, 99, 61, 49, 32, 110, 61, 107>>

\* w=16 p=0x1021 r=t x=0x10000000000000000 c=1 n=k
fault_over ==
    <<119, 61, 49, 54, 32, 112, 61, 48, 120, 49, 48, 50, 49, 32, 114, 61,
      116, 32, 120, 61, 48, 120, 49, 48, 48, 48, 48, 48, 48, 48, 48, 48, 48,
      48, 48, 48, 48, 48, 48, 32, 99, 61, 49, 32, 110, 61, 107>>

\* w=16 p=0x1021 r=yes c=1 n=k
fault_flag ==
    <<119, 61, 49, 54, 32, 112, 61, 48, 120, 49, 48, 50, 49, 32, 114, 61,
      121, 101, 115, 32, 99, 61, 49, 32, 110, 61, 107>>

\* w=16 p=0x1021 r=t r=f c=1 n=k
fault_dup_flag ==
    <<119, 61, 49, 54, 32, 112, 61, 48, 120, 49, 48, 50, 49, 32, 114, 61,
      116, 32, 114, 61, 102, 32, 99, 61, 49, 32, 110, 61, 107>>

\* w=16 p=0x1021 i=1 i=2 r=t c=1 n=k
fault_dup_init ==
    <<119, 61, 49, 54, 32, 112, 61, 48, 120, 49, 48, 50, 49, 32, 105, 61,
      49, 32, 105, 61, 50, 32, 114, 61, 116, 32, 99, 61, 49, 32, 110, 61,
      107>>

\* w=16 p=0x1021 p=3 i=0x10000 r=x c=zz n=k q=1
fault_many ==
    <<119, 61, 49, 54, 32, 112, 61, 48, 120, 49, 48, 50, 49, 32, 112, 61,
      51, 32, 105, 61, 48, 120, 49, 48, 48, 48, 48, 32, 114, 61, 120, 32,
      99, 61, 122, 122, 32, 110, 61, 107, 32, 113, 61, 49>>
FaultLines ==
    {fault_init, fault_poly, fault_over, fault_flag, fault_dup_flag,
     fault_dup_init, fault_many}

\* The parameter names, as C strings, with the mask of each.
Keys ==
    { <<key_width, "width">>, <<key_poly, "poly">>, <<key_init, "init">>,
      <<key_refin, "refin">>, <<key_refout, "refout">>,
      <<key_xorout, "xorout">>, <<key_check, "check">>,
      <<key_residue, "res">>, <<key_name, "name">> }

\* A string with its lower-case letters made upper case, and the reverse.
Upper(s) ==
    [i \in DOMAIN s |-> IF s[i] \in 97 .. 122 THEN s[i] - 32 ELSE s[i]]

Lower(s) ==
    [i \in DOMAIN s |-> IF s[i] \in 65 .. 90 THEN s[i] + 32 ELSE s[i]]

\* The names tried: every non-empty prefix of every parameter name, each
\* with a z or an x put after it, the three as they are and in upper case,
\* and q.
Prefixes == UNION {{SubSeq(k[1], 1, n) : n \in 1 .. Len(k[1])} : k \in Keys}

Names ==
    LET tried == Prefixes \cup {Append(s, 122) : s \in Prefixes}
                          \cup {Append(s, 120) : s \in Prefixes}
    IN  tried \cup {Upper(s) : s \in tried} \cup {<<113>>}

\* The full KERMIT line of model.h followed by name=1: the parameter that
\* name stands for is then given a second time.
NameLine(nm) == kermit_full \o <<32>> \o nm \o <<61, 49>>

NameLines == {NameLine(nm) : nm \in Names}

ParseLines ==
    CaseLines \cup ValidLines \cup SyntaxLines \cup MissingLines
              \cup RangeLines \cup FaultLines \cup NameLines
              \cup {kermit_full, kermit_short}

InitParse ==
    /\ pc = "line"
    /\ line \in ParseLines
    /\ flags = [got |-> {}, bad |-> {}, rep |-> {}, unk |-> NULL]
    /\ ret = 1
    /\ model = Blank
    /\ parm = Blank
    /\ little = -1
    /\ act = Idle

NextParse == ReadModel

SpecParse == InitParse /\ [][NextParse]_vars

\* ------------------------------------------------------------------------
\* Two computations over one prepared model, their calls interleaved
\* ------------------------------------------------------------------------

\* The buffer of the second computation: the test bytes in reverse order.
test2 == [i \in 1 .. Len(test) |-> test[Len(test) + 1 - i]]

\* The buffer of computation i.
buffer(i) == IF i = 1 THEN test ELSE test2

\* The chunk lengths fed, and the most chunks fed to one computation.
ChunkLens == {1, 4}

MaxChunks == 2

\* The models the two computations run on.
ModelsTwo == {m \in Models : m.width \in {3, 12}}

\* A computation not begun.
NoRun == [eng |-> "none", off |-> 0, pos |-> 0, cuts |-> <<>>, acc |-> Word0]

TwoIdle == [kind |-> "two", run |-> <<NoRun, NoRun>>]

\* The crc a computation hands to the routine where the other takes over.
running_crc_shared(run, i) ==
    IF run[3 - i].eng = "none" THEN run[i].acc ELSE run[3 - i].acc

\* The crc computation i hands to its next call: the one its last call
\* returned. The routines take crc by value and keep nothing between
\* calls.
running_crc(run, i) == run[i].acc

InitTwo ==
    /\ pc = "read"
    /\ line = <<>>
    /\ flags = [got |-> ALL, bad |-> {}, rep |-> {}, unk |-> NULL]
    /\ ret = 0
    /\ model \in ModelsTwo
    /\ parm = model
    /\ little = -1
    /\ act = TwoIdle

\* Computation i begins with the NULL call of its engine, its buffer at
\* address off.
BeginTwo(i) ==
    /\ pc = "word"
    /\ act.run[i].eng = "none"
    /\ \E eng \in {"bytewise", "wordwise"}, off \in {0, 1} :
          /\ eng # "wordwise" => off = 0
          /\ act' = [act EXCEPT
                        !.run[i] =
                            [NoRun EXCEPT
                                !.eng = eng, !.off = off,
                                !.acc = Engine(eng, model, Word0, NULL, 0, 0,
                                               little)]]
    /\ model' = model_kept(model)
    /\ UNCHANGED <<pc, line, flags, ret, parm, little>>

\* Computation i feeds the next len bytes of its buffer to its engine.
FeedTwo(i) ==
    /\ pc = "word"
    /\ act.run[i].eng # "none"
    /\ Len(act.run[i].cuts) < MaxChunks
    /\ \E len \in ChunkLens :
          /\ act.run[i].pos + len <= Len(buffer(i))
          /\ act' = [act EXCEPT
                        !.run[i].pos = @ + len,
                        !.run[i].cuts = Append(@, len),
                        !.run[i].acc =
                            Engine(act.run[i].eng, model,
                                   running_crc(act.run, i),
                                   SubSeq(buffer(i), act.run[i].pos + 1,
                                          act.run[i].pos + len),
                                   len, act.run[i].off + act.run[i].pos,
                                   little)]
    /\ model' = model_kept(model)
    /\ UNCHANGED <<pc, line, flags, ret, parm, little>>

NextTwo ==
    \/ ProcessModel
    \/ TableBytewise
    \/ TableWordwise
    \/ \E i \in {1, 2} : BeginTwo(i)
    \/ \E i \in {1, 2} : FeedTwo(i)

SpecTwo == InitTwo /\ [][NextTwo]_vars

\* ------------------------------------------------------------------------
\* The narrowest models: widths 1 and 2
\* ------------------------------------------------------------------------

\* Every polynomial of width 1 and of width 2 whose low bit is one.
PolysSmall == { <<1, {}, W(1)>>, <<2, {}, W(1)>>, <<2, {}, W(3)>> }

ModelsSmall ==
    { ReadRecord(p[1], p[2], p[3], Val(ix[1], p[1]), refin, refout,
                 Val(ix[2], p[1])) :
        p \in PolysSmall, ix \in InitXor, refin \in {0, 1},
        refout \in {0, 1} }

InitSmall ==
    /\ pc = "read"
    /\ line = <<>>
    /\ flags = [got |-> ALL, bad |-> {}, rep |-> {}, unk |-> NULL]
    /\ ret = 0
    /\ model \in ModelsSmall
    /\ parm = model
    /\ little = -1
    /\ act = Idle

SpecSmall == InitSmall /\ [][Next]_vars

\* ------------------------------------------------------------------------
\* multmodp(), the combine table and the walks over it
\* ------------------------------------------------------------------------

\* Polynomials whose tables of squares end in each way: with cycle 2 and
\* with cycle 3, going back to the first, a middle and the last entry; with
\* longer cycles; and, for width 19 (the product of primitive polynomials
\* of degrees 3, 4, 5 and 7), with no repeat in the whole table.
PolysComb ==
    { <<1, {}, W(1)>>, <<2, {}, W(1)>>, <<2, {}, W(3)>>,
      <<3, {}, W(1)>>, <<3, {}, W(3)>>, <<3, {}, W(7)>>,
      <<4, {}, W(5)>>, <<8, {}, W(7)>>, <<19, {}, W(255051)>>,
      <<32, {}, W(79764919)>> }

ModelsComb ==
    { ReadRecord(p[1], p[2], p[3], Val("ones", p[1]), refin, refout,
                 Val("one", p[1])) :
        p \in PolysComb, refin \in {0, 1}, refout \in {0, 1} }

\* The operands given to multmodp(): every value of a width up to 3, and
\* for a wider one x^0 and x^(width - 1) in either bit order, small values,
\* alternate bits and all ones.
MulArgs(width) ==
    IF width <= 3 THEN SUBSET (0 .. (width - 1))
    ELSE {{}, W(1), W(2), W(3), SHL(W(1), width - 1),
          AND(mask_55555555, ONES(width)), ONES(width)}

\* The numbers of zero bits, from 128 up, given to crc_zeros(), and the
\* numbers of bytes given to x8nmodp().
ZeroBits == {128, 129, 255, 4099, 1048576, 2147483647}

ByteCounts == {0, 1, 2, 5, 9, 255, 61417, 2147483647}

\* No call of this section made yet.
CombIdle ==
    [kind |-> "none", a |-> {}, b |-> {}, n |-> 0, k |-> 0, reads |-> {},
     r |-> {}]

InitComb ==
    /\ pc = "read"
    /\ line = <<>>
    /\ flags = [got |-> ALL, bad |-> {}, rep |-> {}, unk |-> NULL]
    /\ ret = 0
    /\ model \in ModelsComb
    /\ parm = model
    /\ little = -1
    /\ act = CombIdle

\* multmodp(model, a, b) on a normalised model, a not zero, by a caller
\* that does nothing else until it has the product.
CallMultmodp ==
    /\ pc = "processed"
    /\ act.kind = "none"
    /\ \E a \in MulArgs(model.width) \ {{}}, b \in MulArgs(model.width) :
          act' = [CombIdle EXCEPT !.kind = "mul", !.a = a, !.b = b,
                                  !.r = multmodp(model, a, b)]
    /\ pc' = "mul"
    /\ model' = model_kept(model)
    /\ UNCHANGED <<line, flags, ret, parm, little>>

\* crc_zeros() on its table path, with the indices its walk reads.
CallZerosWalk ==
    /\ pc = "comb"
    /\ act.kind = "none"
    /\ \E crc \in {W(1), ONES(model.width)}, n \in ZeroBits :
          act' = [CombIdle EXCEPT !.kind = "zeros", !.a = crc, !.n = n,
                                  !.reads = walk_reads(model, n, 0),
                                  !.r = crc_zeros(model, crc, n)]
    /\ model' = model_kept(model)
    /\ UNCHANGED <<pc, line, flags, ret, parm, little>>

\* x8nmodp(model, n), as crc_combine() calls it, with the index its walk
\* starts at and the indices it reads.
CallX8nmodp ==
    /\ pc = "comb"
    /\ act.kind = "none"
    /\ \E n \in ByteCounts :
          act' = [CombIdle EXCEPT
                     !.kind = "x8n", !.n = n, !.k = x8n_start(model),
                     !.reads = walk_reads(model, n, x8n_start(model)),
                     !.r = x8nmodp(model, n)]
    /\ model' = model_kept(model)
    /\ UNCHANGED <<pc, line, flags, ret, parm, little>>

\* The caller is done with the value and free to make another call.
DropComb ==
    /\ act.kind # "none"
    /\ act' = CombIdle
    /\ pc' = IF pc = "mul" THEN "processed" ELSE pc
    /\ UNCHANGED <<line, flags, ret, parm, model, little>>

NextComb ==
    \/ ProcessModel
    \/ TableBytewise
    \/ TableWordwise
    \/ TableCombine
    \/ CallMultmodp
    \/ CallZerosWalk
    \/ CallX8nmodp
    \/ DropComb

SpecComb == InitComb /\ [][NextComb]_vars

\* ------------------------------------------------------------------------
\* Calls of crc_bitwise_dbl() and of reverse_dbl() on models wider than a
\* word
\* ------------------------------------------------------------------------

\* The models of more than WORDBITS bits.
ModelsDbl == {m \in Models : m.width > WORDBITS}

\* The byte sequences given to crc_bitwise_dbl() besides the test buffer.
DblData ==
    << <<>>, <<0>>, <<128>>, <<255, 1>>, <<0, 165, 49>>,
       <<254, 0, 0, 127, 200>> >>

\* The pairs given to reverse_dbl().
ReverseDblArgs ==
    { [hi |-> {}, lo |-> W(1)], [hi |-> W(1), lo |-> {}],
      [hi |-> Bits, lo |-> Bits],
      [hi |-> W2(57005, 48879), lo |-> W2(4660, 22136)],
      [hi |-> W2(32768, 1), lo |-> mask_aaaaaaaa] }

InitDbl ==
    /\ pc = "read"
    /\ line = <<>>
    /\ flags = [got |-> ALL, bad |-> {}, rep |-> {}, unk |-> NULL]
    /\ ret = 0
    /\ model \in ModelsDbl
    /\ parm = model
    /\ little = -1
    /\ act = Idle

\* crc_bitwise_dbl() with NULL and then on the bytes of DblData[k].
CallDbl ==
    /\ Usable
    /\ act.kind = "none"
    /\ \E k \in 1 .. Len(DblData) :
          act' = [Idle EXCEPT
                     !.kind = "dbl", !.eng = "bitwise_dbl", !.null = TRUE,
                     !.crc0 = crc_bitwise_dbl(model, Word0, NULL, 0),
                     !.n = k, !.pos = Len(DblData[k]), !.calls = 1,
                     !.acc = crc_bitwise_dbl(
                                 model, crc_bitwise_dbl(model, Word0, NULL, 0),
                                 DblData[k], Len(DblData[k]))]
    /\ model' = model_kept(model)
    /\ UNCHANGED <<pc, line, flags, ret, parm, little>>

\* reverse_dbl(&hi, &lo, n)
CallReverseDbl ==
    /\ act.kind = "none"
    /\ \E x \in ReverseDblArgs, n \in 1 .. (2 * WORDBITS) :
          act' = [Idle EXCEPT !.kind = "reverse_dbl", !.arg = x, !.n = n,
                              !.calls = 1,
                              !.acc = reverse_dbl(x.hi, x.lo, n)]
    /\ UNCHANGED <<pc, line, flags, ret, parm, model, little>>

\* reverse_dbl() again, on what it left and with the same n.
CallReverseDblAgain ==
    /\ act.kind = "reverse_dbl"
    /\ act.calls = 1
    /\ act' = [act EXCEPT
                   !.calls = 2,
                   !.acc = reverse_dbl(act.acc.hi, act.acc.lo, act.n)]
    /\ UNCHANGED <<pc, line, flags, ret, parm, model, little>>

NextDbl ==
    \/ ProcessModel
    \/ CallNull
    \/ CallFirst
    \/ CallNext
    \/ CallDbl
    \/ CallReverseDbl
    \/ CallReverseDblAgain
    \/ Drop

SpecDbl == InitDbl /\ [][NextDbl]_vars

\* ------------------------------------------------------------------------
\* The single-word routines on the models that fit a word
\* ------------------------------------------------------------------------

\* The models of at most WORDBITS bits.
ModelsRange == {m \in Models : m.width <= WORDBITS}

InitRange ==
    /\ pc = "read"
    /\ line = <<>>
    /\ flags = [got |-> ALL, bad |-> {}, rep |-> {}, unk |-> NULL]
    /\ ret = 0
    /\ model \in ModelsRange
    /\ parm = model
    /\ little = -1
    /\ act = Idle

NextRange ==
    \/ ProcessModel
    \/ TableBytewise
    \/ TableWordwise
    \/ TableCombine
    \/ CallNull
    \/ CallFirst
    \/ CallNext
    \/ CallZeros
    \/ CallCombine
    \/ Drop

SpecRange == InitRange /\ [][NextRange]_vars

\* ------------------------------------------------------------------------
\* The drivers: what main() of crctest.c, crcadd.c, crcall.c and crcgen.c
\* does with one model description, as the routines it calls on the model
\* ------------------------------------------------------------------------

Drivers == {"crctest", "crcadd", "crcall", "crcgen"}

\* The generator drivers, whose main() hands the model to crc_gen().
Generators == {"crcadd", "crcall", "crcgen"}

\* INTMAX_BITS of crcadd.c, crcall.c and crcgen.c, on the build modelled.
INTMAX_BITS == WORDBITS

PolysDrv ==
    { <<1, {}, W(1)>>, <<3, {}, W(3)>>, <<8, {}, W(7)>>,
      <<12, {}, W(2063)>>, <<32, {}, W(79764919)>>,
      <<33, {}, W(9)>>, <<48, W(9), W2(4660, 22137)>>,
      <<64, W2(17136, 57835), W2(43498, 13971)>> }

ModelsDrv ==
    { ReadRecord(p[1], p[2], p[3], Val("ones", p[1]), refin, refout,
                 Val("one", p[1])) :
        p \in PolysDrv, refin \in {0, 1}, refout \in {0, 1} }

\* The contents of a table that was computed by an undefined operation or
\* from memory that nothing had stored to: any values at all.
Indeterminate == <<{-4}>>

\* The driver's record: the routines called on the model so far, in order,
\* the tables that were read before they were built (by which routine), the
\* bits of tests of crctest.c, whether the line was skipped, and whether
\* crc_gen() wrote "#define table_byte table_word[0]" (-1 before crc_gen()).
DrvIdle(d) ==
    [kind |-> "driver", driver |-> d, calls |-> <<>>, unbuilt |-> {},
     tests |-> {}, skipped |-> FALSE, alias |-> -1]

InitDrv ==
    /\ pc = "read"
    /\ line = <<>>
    /\ flags = [got |-> ALL, bad |-> {}, rep |-> {}, unk |-> NULL]
    /\ ret \in {0, 1}
    /\ model \in ModelsDrv
    /\ parm = model
    /\ little = -1
    /\ act \in {DrvIdle(d) : d \in Drivers}

\* The record after the calls named, with the bit added to tests when the
\* test passed.
drv_called(a, names, bit, good) ==
    [a EXCEPT !.calls = @ \o names,
              !.tests = IF good THEN @ \cup {bit} ELSE @]

\* The reads of tables that are not built, by the routine named.
drv_unbuilt(m, routine, tables) ==
    {<<routine, t>> : t \in {u \in tables : m[u] = NoTable}}

\* read_model() returned 1, or the generator found the model too wide: the
\* driver reports the line and goes on to the next.
DrvSkip ==
    /\ pc = "read"
    /\ \/ ret = 1
       \/ act.driver \in Generators /\ model.width > INTMAX_BITS
    /\ act' = [act EXCEPT !.skipped = TRUE]
    /\ pc' = "done"
    /\ UNCHANGED <<line, flags, ret, parm, model, little>>

\* process_model(&model);
DrvProcess ==
    /\ pc = "read"
    /\ ret = 0
    /\ act.driver \in Generators => model.width <= INTMAX_BITS
    /\ model' = process_model(model)
    /\ act' = drv_called(act, <<"process_model">>, 0, FALSE)
    /\ pc' = "processed"
    /\ UNCHANGED <<line, flags, ret, parm, little>>

\* crc_table_combine(&model) of crctest.c and crcadd.c.  On a model wider
\* than a word every shift by width - 1 or width - 2 is undefined: the call
\* returns with the table indeterminate, or it never returns.
DrvTableCombine ==
    /\ pc = "processed"
    /\ act.driver \in {"crctest", "crcadd"}
    /\ IF Narrow(model)
       THEN \E sq \in X1Outcomes(model) :
               TableCombineEnd(crc_table_combine(model, sq))
       ELSE /\ pc' \in {"comb", "hung"}
            /\ model' = [model EXCEPT !.table_comb = Indeterminate]
    /\ act' = drv_called(act, <<"crc_table_combine", "multmodp">>, 0, FALSE)
    /\ UNCHANGED <<line, flags, ret, parm, little>>

\* crc_table_bytewise(&model) of crctest.c and crcadd.c, which calls
\* crc_bitwise() for each byte value.  On a model wider than a word the
\* shifts of crc_bitwise() are undefined and the table is indeterminate.
DrvTableBytewise ==
    /\ pc = "comb"
    /\ act.driver \in {"crctest", "crcadd"}
    /\ model' = [model EXCEPT
                    !.table_byte = IF Narrow(model)
                                   THEN crc_table_bytewise(model)
                                   ELSE Indeterminate]
    /\ act' = drv_called(act, <<"crc_table_bytewise", "crc_bitwise">>, 0, FALSE)
    /\ pc' = "byte"
    /\ UNCHANGED <<line, flags, ret, parm, little>>

\* The routines crc_bitwise_dbl() and crc_zeros_dbl() run: themselves on a
\* wide model, and the single-word routine they hand a narrow one to.
dbl_calls(m, dbl, single) ==
    IF Narrow(m) THEN <<dbl, single>> ELSE <<dbl>>

\* crctest.c, bit-wise: crc_bitwise_dbl() with NULL and then on the nine
\* test bytes, compared with the check value.
drv_bitwise(m) ==
    crc_bitwise_dbl(m, crc_bitwise_dbl(m, Word0, NULL, 0), test, Len(test))

DrvBitwise ==
    /\ pc = "byte"
    /\ act.driver = "crctest"
    /\ act' = drv_called(act,
                         dbl_calls(model, "crc_bitwise_dbl", "crc_bitwise")
                         \o dbl_calls(model, "crc_bitwise_dbl", "crc_bitwise"),
                         1,
                         drv_bitwise(model)
                             = [hi |-> model.check_hi, lo |-> model.check])
    /\ model' = model_kept(model)
    /\ pc' = "bit"
    /\ UNCHANGED <<line, flags, ret, parm, little>>

\* crctest.c, residue: crc_zeros_dbl() over width zero bits from zero, and
\* the exclusive-or with xorout, compared with the residue.
DrvResidue ==
    /\ pc = "bit"
    /\ act' = drv_called(act, dbl_calls(model, "crc_zeros_dbl", "crc_zeros"),
                         2,
                         residue_call(model,
                                      crc_zeros_dbl(model, Word0,
                                                    model.width)).acc
                             = [hi |-> model.res_hi, lo |-> model.res])
    /\ model' = model_kept(model)
    /\ pc' = "res"
    /\ UNCHANGED <<line, flags, ret, parm, little>>

\* if (model.width > WORDBITS) tests |= 4;
DrvTooLong ==
    /\ pc = "res"
    /\ ~Narrow(model)
    /\ act' = drv_called(act, <<>>, 4, TRUE)
    /\ pc' = "done"
    /\ UNCHANGED <<line, flags, ret, parm, model, little>>

\* crctest.c: little = *((unsigned char *)(&little)), then
\* crc_table_wordwise(&model, little, WORDBITS).
DrvTableWordwise ==
    /\ pc = "res"
    /\ Narrow(model)
    /\ \E host \in {0, 1} :
          /\ little' = host
          /\ model' = [model EXCEPT
                          !.table_word =
                              crc_table_wordwise(model, host, WORDBITS)]
    /\ act' = [drv_called(act, <<"crc_table_wordwise">>, 0, FALSE) EXCEPT
                  !.unbuilt = @ \cup drv_unbuilt(model, "crc_table_wordwise",
                                                 {"table_byte"})]
    /\ pc' = "word"
    /\ UNCHANGED <<line, flags, ret, parm>>

\* crctest.c, byte-wise: crc_bytewise() with NULL and on the test bytes.
drv_bytewise(m, dat) ==
    crc_bytewise(m, crc_bytewise(m, {}, NULL, 0), dat, Len(dat))

DrvBytewise ==
    /\ pc = "word"
    /\ act' = [drv_called(act, <<"crc_bytewise", "crc_bytewise">>, 8,
                          drv_bytewise(model, test) = model.check) EXCEPT
                  !.unbuilt = @ \cup drv_unbuilt(model, "crc_bytewise",
                                                 {"table_byte"})]
    /\ model' = model_kept(model)
    /\ pc' = "bytes"
    /\ UNCHANGED <<line, flags, ret, parm, little>>

\* crctest.c, word-wise: crc_wordwise() with NULL and on the test bytes at a
\* word boundary, and when that gave the check value, again on the copy one
\* byte short of a boundary.
drv_wordwise(m, addr, host) ==
    crc_wordwise(m, crc_wordwise(m, {}, NULL, 0, 0, host), test, Len(test),
                 addr, host)

drv_wordwise_calls(first) ==
    IF first
    THEN <<"crc_wordwise", "crc_wordwise", "crc_wordwise", "crc_wordwise">>
    ELSE <<"crc_wordwise", "crc_wordwise">>

DrvWordwise ==
    /\ pc = "bytes"
    /\ act' = [drv_called(act,
                          drv_wordwise_calls(
                              drv_wordwise(model, 0, little) = model.check),
                          16,
                          /\ drv_wordwise(model, 0, little) = model.check
                          /\ drv_wordwise(model, WORDCHARS - 1, little)
                                 = model.check) EXCEPT
                  !.unbuilt = @ \cup drv_unbuilt(model, "crc_wordwise",
                                                 {"table_byte", "table_word"})]
    /\ model' = model_kept(model)
    /\ pc' = "words"
    /\ UNCHANGED <<line, flags, ret, parm, little>>

\* crctest.c, combine: the CRC of a vector, of its two parts, and
\* crc_combine() of those two.  The nine test bytes, cut after the fourth,
\* stand for the random vector of 65521 bytes cut 61417 from its end.
drv_combine(m) ==
    crc_combine(m, drv_bytewise(m, SubSeq(test, 1, 4)),
                drv_bytewise(m, SubSeq(test, 5, Len(test))), Len(test) - 4)

DrvCombine ==
    /\ pc = "words"
    /\ act' = [drv_called(act,
                          <<"crc_bytewise", "crc_bytewise", "crc_bytewise",
                            "crc_bytewise", "crc_combine", "multmodp">>,
                          32,
                          drv_bytewise(model, test) = drv_combine(model))
               EXCEPT
                  !.unbuilt = @ \cup drv_unbuilt(model, "crc_bytewise",
                                                 {"table_byte"})
                                \cup drv_unbuilt(model, "crc_combine",
                                                 {"table_comb"})]
    /\ model' = model_kept(model)
    /\ pc' = Outcome(drv_combine(model), "done")
    /\ UNCHANGED <<line, flags, ret, parm, little>>

\* The tables crc_gen() reads to write them out.
gen_tables(m, host, word_bits) ==
    IF gen_alias(m, host, word_bits) THEN {"table_word"}
    ELSE {"table_byte", "table_word"}

\* The model after crc_table_wordwise(model, little, word_bits) in
\* crc_gen(): from a byte-wise table nothing has stored, the word-wise
\* table is indeterminate.
gen_wordwise(m, host, word_bits) ==
    [m EXCEPT !.table_word = IF m.table_byte = NoTable THEN Indeterminate
                             ELSE crc_table_wordwise(m, host, word_bits)]

\* crc_gen(&model, name, little, bits, head, code): the bit-wise and _rem
\* routines are written from the parameters, then crc_table_wordwise() is
\* called and the tables and the routines that use them are written.
\* crcadd.c calls it after crc_table_combine() and crc_table_bytewise(),
\* crcall.c and crcgen.c right after process_model().  little is the host's
\* or the one asked for with -b or -l.
DrvGen ==
    /\ \/ act.driver = "crcadd" /\ pc = "byte"
       \/ act.driver \in {"crcall", "crcgen"} /\ pc = "processed"
    /\ model.width <= INTMAX_BITS
    /\ \E host \in {0, 1} :
          /\ little' = host
          /\ model' = gen_wordwise(model, host, INTMAX_BITS)
          /\ act' = [drv_called(act, <<"crc_gen", "crc_table_wordwise">>,
                                0, FALSE) EXCEPT
                        !.unbuilt =
                            @ \cup drv_unbuilt(model, "crc_table_wordwise",
                                               {"table_byte"})
                              \cup drv_unbuilt(
                                       gen_wordwise(model, host, INTMAX_BITS),
                                       "crc_gen",
                                       gen_tables(model, host, INTMAX_BITS)),
                        !.alias = IF gen_alias(model, host, INTMAX_BITS)
                                  THEN 1 ELSE 0]
    /\ pc' = "done"
    /\ UNCHANGED <<line, flags, ret, parm>>

NextDrv ==
    \/ DrvSkip
    \/ DrvProcess
    \/ DrvTableCombine
    \/ DrvTableBytewise
    \/ DrvBitwise
    \/ DrvResidue
    \/ DrvTooLong
    \/ DrvTableWordwise
    \/ DrvBytewise
    \/ DrvWordwise
    \/ DrvCombine
    \/ DrvGen

SpecDrv == InitDrv /\ [][NextDrv]_vars

\* ------------------------------------------------------------------------
\* The reference: the Williams (Rocksoft) model on registers of any width,
\* a register being the set of the positions of its one bits
\* ------------------------------------------------------------------------

\* The double word hi:lo as one register.
Dw(hi, lo) == lo \cup {i + WORDBITS : i \in hi}

\* The reflection of the low n bits of a register.
Reflect(d, n) == {n - 1 - i : i \in {j \in d : j < n}}

\* The register after k zero bits, most significant bit first.
RECURSIVE Advance(_, _, _, _)
Advance(reg, poly, n, k) ==
    IF k = 0 THEN reg
    ELSE LET s == {i + 1 : i \in {j \in reg : j + 1 < n}}
         IN  Advance(IF (n - 1) \in reg THEN XOR(s, poly) ELSE s, poly, n,
                     k - 1)

\* The polynomial a width-bit word stands for, as the set of its exponents:
\* bit i is x^i in the normal bit order and x^(width - 1 - i) in the
\* reflected one.
PolyOf(x, width, ref) == IF ref = 1 THEN Reflect(x, width) ELSE x

\* b(x) x^i mod p(x) for each i below the width, as the sequence whose
\* entry i + 1 is the row for i.
RowAfter(rows, poly, width) ==
    Append(rows, Advance(rows[Len(rows)], poly, width, 1))

RECURSIVE RowsUpTo(_, _, _, _)
RowsUpTo(b, poly, width, i) ==
    IF i = 0 THEN <<b>>
    ELSE RowAfter(RowsUpTo(b, poly, width, i - 1), poly, width)

PolyRows(b, poly, width) == RowsUpTo(b, poly, width, width - 1)

\* The sum over the exponents i of a of the row for i.
PolySum(a, rows, width) ==
    (0 .. (width - 1))
    \cap {e \in 0 .. (width - 1) :
              Cardinality({i \in a : e \in rows[i + 1]}) % 2 = 1}

\* a(x) b(x) mod p(x).
MulModP(a, b, poly, width) == PolySum(a, PolyRows(b, poly, width), width)

\* base(x)^n mod p(x) by squaring: the square of the power for n div 2,
\* times base when n is odd.
PowTimes(sq, base, odd, poly, width) ==
    IF sq = {} \/ ~odd THEN sq ELSE MulModP(sq, base, poly, width)

PowStep(h, base, odd, poly, width) ==
    IF h = {} THEN {}
    ELSE PowTimes(MulModP(h, h, poly, width), base, odd, poly, width)

RECURSIVE PowLow(_, _, _, _)
PowLow(base, n, poly, width) ==
    IF n = 0 THEN {0}
    ELSE PowStep(PowLow(base, n \div 2, poly, width), base, n % 2 = 1,
                 poly, width)

\* PowLow() of a base that is computed before the recursion starts.
PowOf(base, n, poly, width) ==
    IF base = {} /\ n > 0 THEN {} ELSE PowLow(base, n, poly, width)

\* The product of two powers, each computed before it is multiplied.
PowJoin(high, low, poly, width) ==
    IF high = {} \/ low = {} THEN {} ELSE MulModP(high, low, poly, width)

\* base^n as (base^65536)^(n div 65536) base^(n mod 65536), base^65536 being
\* (base^256)^256, which keeps the evaluation shallow.
PowModP(base, n, poly, width) ==
    IF n < 65536 THEN PowLow(base, n, poly, width)
    ELSE PowJoin(PowOf(PowOf(PowOf(base, 256, poly, width), 256, poly, width),
                       n \div 65536, poly, width),
                 PowLow(base, n % 65536, poly, width), poly, width)

\* The parameters as read: the polynomial, initial register and final
\* exclusive-or as registers, refin and refout as booleans.
ParmPoly == Dw(parm.poly_hi, parm.poly)

ParmInit == Dw(parm.init_hi, parm.init)

ParmXorout == Dw(parm.xorout_hi, parm.xorout)

Refin == parm.ref = 1

Refout == parm.rev = 1

\* The CRC of the empty message: the initial register, reflected if refout,
\* exclusive-ored with xorout.
EmptyCRC ==
    XOR(IF Refout THEN Reflect(ParmInit, parm.width) ELSE ParmInit, ParmXorout)

\* The register after one message bit: the bit is exclusive-ored with the
\* top of the register, the register shifted up, and the polynomial
\* exclusive-ored in when the result was one.
FeedBit(reg, poly, n, one) ==
    IF reg = {} THEN IF one THEN poly ELSE {}
    ELSE IF ((n - 1) \in reg) # one
    THEN XOR({i + 1 : i \in {j \in reg : j + 1 < n}}, poly)
    ELSE {i + 1 : i \in {j \in reg : j + 1 < n}}

\* The register after the bits k and up of the byte b, counted from 0: the
\* low bit first if refin and the high bit first otherwise.
RECURSIVE FeedByte(_, _, _, _, _, _)
FeedByte(reg, poly, n, b, refin, k) ==
    IF k = 8 \/ ~(reg \subseteq 0 .. (n - 1)) THEN reg
    ELSE FeedByte(FeedBit(reg, poly, n,
                          (IF refin THEN k ELSE 7 - k) \in ByteWord[b]),
                  poly, n, b, refin, k + 1)

\* The register after the bytes i and up of dat.
RECURSIVE FeedData(_, _, _, _, _, _)
FeedData(reg, poly, n, dat, refin, i) ==
    IF i > Len(dat) \/ ~(reg \subseteq 0 .. (n - 1)) THEN reg
    ELSE FeedData(FeedByte(reg, poly, n, dat[i], refin, 0), poly, n, dat,
                  refin, i + 1)

\* A CRC value as the register it was made from, and back: the exclusive-or
\* with xorout and the reflection if refout.
AsRegister(crc) ==
    IF Refout THEN Reflect(XOR(crc, ParmXorout), parm.width)
    ELSE XOR(crc, ParmXorout)

AsCRC(reg) ==
    XOR(IF Refout THEN Reflect(reg, parm.width) ELSE reg, ParmXorout)

\* The CRC of the model as read that continues the CRC value crc over the
\* bytes of dat, computed one bit at a time on one register of width bits.
ReferenceCRC(crc, dat) ==
    AsCRC(FeedData(AsRegister(crc), ParmPoly, parm.width, dat, Refin, 1))

\* The register that starts as start (as it appears in a CRC value, so
\* reflected if refout) after width zero bits, again as it appears in a CRC.
Residue(start) ==
    LET r0 == IF Refout THEN Reflect(start, parm.width) ELSE start
        r1 == Advance(r0, ParmPoly, parm.width, parm.width)
    IN  IF Refout THEN Reflect(r1, parm.width) ELSE r1

\* The bytes p+1 .. q of the test buffer.
Data(p, q) == SubSeq(test, p + 1, q)

\* k zero bytes.
Zeros(k) == [i \in 1 .. k |-> 0]

\* ------------------------------------------------------------------------
\* The claims
\* ------------------------------------------------------------------------

\* C1 (engine agreement): on a normalised model of width at most WORDBITS
\* with its tables built, one call of crc_bytewise or of crc_wordwise, from
\* any starting crc and on any number of bytes at any address, returns what
\* crc_bitwise returns for the same crc and bytes.
C1_EngineAgreement ==
    ( /\ act.kind = "chain"
      /\ ~act.null
      /\ act.eng \in {"bitwise", "bytewise", "wordwise"} )
    => act.acc.lo = crc_bitwise(model, act.crc0.lo, Data(0, act.pos), act.pos)

\* C2 (chunk additivity): for each of the four engines, the value returned
\* after the NULL call and the chunks fed so far is the value one call on
\* their concatenation returns.
C2_ChunkAdditivity ==
    (act.kind = "chain" /\ act.null /\ act.calls >= 1)
    => act.acc = Engine(act.eng, model, act.crc0, Data(0, act.pos), act.pos,
                        act.off, little)

\* C3 (combine correctness): with the combine table built, crc_combine() on
\* the CRCs of the two parts of a split of the data, both computed from the
\* model's initial CRC, returns the CRC of the whole data.
C3_CombineCorrect ==
    act.kind = "combine"
    => /\ act.acc.lo = crc_bitwise(model, model.init,
                                   Data(0, act.pos + act.n), act.pos + act.n)
       /\ act.crc1 = crc_bitwise(model, model.init, Data(0, act.pos), act.pos)
       /\ act.crc2 = crc_bitwise(model, model.init,
                                 Data(act.pos, act.pos + act.n), act.n)

\* crc_combine() has returned for a model with rev = 1 and a nonzero xorout,
\* on a split with two parts that are not empty.
C3_Witness ==
    /\ act.kind = "combine"
    /\ pc = "comb"
    /\ model.rev = 1
    /\ model.xorout # {}
    /\ act.pos > 0
    /\ act.n > 0

\* C4 (zero-run agreement): crc_zeros() over 8k zero bits returns what
\* crc_bytewise() returns on k zero bytes from the same crc, below and above
\* the switch to the table at 128 bits.
C4_ZeroRun ==
    act.kind = "zeros"
    => act.acc.lo = crc_bytewise(model, act.crc0.lo, Zeros(act.n \div 8),
                                 act.n \div 8)

\* crc_zeros() has returned from its table path at n = 128, on a model with
\* rev = 1 and a crc that is not the initial one.
C4_Witness ==
    /\ act.kind = "zeros"
    /\ pc = "comb"
    /\ act.n = 128
    /\ model.rev = 1
    /\ act.crc0.lo # model.init
    /\ act.acc.lo # act.crc0.lo

\* C5 (the NULL call): a call of any of the four engines with data = NULL
\* returns the normalised init of the model whatever crc and len it is
\* given, and changes nothing of the model or of its caller's other state.
C5_NullCall ==
    [][ (act.kind = "none" /\ act'.kind = "chain" /\ act'.null
         /\ act'.calls = 0)
        => /\ act'.acc = [hi |-> model.init_hi, lo |-> model.init]
           /\ UNCHANGED <<pc, line, flags, ret, parm, model, little>> ]_vars

\* crc_wordwise() has returned from a NULL call that was given a crc other
\* than the initial one and a length of nine.
C5_Witness ==
    /\ act.kind = "chain"
    /\ act.null
    /\ act.calls = 0
    /\ act.eng = "wordwise"
    /\ act.n = 9
    /\ act.arg.lo # model.init
    /\ act.acc.lo = model.init

\* C6 (process_model): after process_model() the init of the model is the
\* CRC of the empty message (the initial register, reflected if refout,
\* exclusive-ored with xorout), ref is refin, rev is set exactly when refin
\* and refout differ, and poly is reflected over width bits exactly when
\* refin is set.
C6_ProcessModel ==
    pc \notin {"line", "read"}
    => /\ Dw(model.init_hi, model.init) = EmptyCRC
       /\ model.ref = parm.ref
       /\ (model.rev = 1) <=> (Refin # Refout)
       /\ Dw(model.poly_hi, model.poly) =
              IF Refin THEN Reflect(ParmPoly, parm.width) ELSE ParmPoly

\* process_model() has run on a model wider than a word with refout only and
\* an initial register that its reflection changes.
C6_Witness ==
    /\ pc = "processed"
    /\ parm.width > WORDBITS
    /\ ~Refin
    /\ Refout
    /\ Reflect(ParmInit, parm.width) # ParmInit
    /\ ParmXorout # {}

\* The lines that give the parameters of CRC-16/KERMIT.
KermitLines == {kermit_full, kermit_short, kermit_parms}

\* C7 (check value of CRC-16/KERMIT): read_model() on the line
\* width=16 poly=0x1021 init=0x0000 refin=true refout=true xorout=0x0000,
\* on the line of model.h that adds check, residue and name to it, and on the
\* abbreviated line w=16 p=4129 r=t c=8585 n=KERMIT stores the same six
\* parameters; the last two lines are accepted and give the same model; and
\* after process_model() every engine, called once on the nine bytes
\* "123456789" with the CRC its NULL call returned, returns 0x2189.
C7_KermitCheck ==
    /\ (pc # "line" /\ line \in KermitLines)
       => /\ parm.width = 16
          /\ ParmPoly = W(4129)
          /\ ParmInit = {}
          /\ Refin /\ Refout
          /\ ParmXorout = {}
    /\ (pc # "line" /\ line \in {kermit_full, kermit_short})
       => /\ ret = 0
          /\ parm = [Blank EXCEPT
                        !.width = 16, !.ref = 1, !.rev = 1,
                        !.poly = W(4129), !.poly_hi = {},
                        !.init = {}, !.init_hi = {},
                        !.xorout = {}, !.xorout_hi = {},
                        !.check = W(8585), !.check_hi = {},
                        !.res = {}, !.res_hi = {},
                        !.name = <<75, 69, 82, 77, 73, 84>>]
    /\ ( /\ line \in KermitLines
         /\ act.kind = "chain" /\ act.null
         /\ act.calls = 1 /\ act.pos = 9 )
       => act.acc = [hi |-> {}, lo |-> W(8585)]

\* The word-wise engine has returned 0x2189 for the nine bytes, placed at an
\* odd address, on the model read from the abbreviated line.
C7_Witness ==
    /\ line = kermit_short
    /\ act.kind = "chain" /\ act.null
    /\ act.eng = "wordwise"
    /\ act.off = 1
    /\ act.calls = 1 /\ act.pos = 9
    /\ act.acc.lo = W(8585)

\* C8 (combination for CRC-32/ISO-HDLC): on the model of width 32 with poly
\* 0x04c11db7, init 0xffffffff, refin and refout true and xorout 0xffffffff,
\* crc_combine() on the CRC of "12345", the CRC of "6789" and the length 4
\* returns 0xcbf43926, which is also the CRC of "123456789" computed in one
\* call.
C8_Crc32Combine ==
    (line = crc32_hdlc /\ act.kind = "combine" /\ act.pos = 5 /\ act.n = 4)
    => /\ parm.width = 32
       /\ ParmPoly = W2(1217, 7607)
       /\ ParmInit = Bits /\ ParmXorout = Bits
       /\ Refin /\ Refout
       /\ act.crc1 = crc_bitwise(model, model.init, Data(0, 5), 5)
       /\ act.crc2 = crc_bitwise(model, model.init, Data(5, 9), 4)
       /\ act.acc.lo = W2(52212, 14630)
       /\ act.crc0.lo = W2(52212, 14630)
       /\ crc_bitwise(model, model.init, test, 9) = W2(52212, 14630)

\* crc_combine() has returned for "12345" and "6789" on CRC-32/ISO-HDLC.
C8_Witness ==
    /\ line = crc32_hdlc
    /\ pc = "comb"
    /\ act.kind = "combine" /\ act.pos = 5 /\ act.n = 4
    /\ act.crc1 # act.crc2
    /\ act.acc.lo = W2(52212, 14630)

\* C9 as the specification states it: the value the residue test compares
\* with model.res is an all-zero register advanced by width zero bits.
C9_ResidueFromZero ==
    act.kind = "residue" => Dw(act.acc.hi, act.acc.lo) = Residue({})

\* C9 (residue): the value the residue test compares with model.res is the
\* register that starts as xorout, which is what a CRC value of zero stands
\* for, advanced by width zero bits.
C9_ResidueFromXorout ==
    act.kind = "residue" => Dw(act.acc.hi, act.acc.lo) = Residue(ParmXorout)

\* The residue test has run on a model with a nonzero xorout and rev = 1.
C9_Witness ==
    /\ act.kind = "residue"
    /\ ParmXorout # {}
    /\ model.rev = 1
    /\ act.acc # Word0

\* The low n bits of a register.
LowBits(x, n) == {i \in x : i < n}

\* C10 (reversal involution), as stated: for every word x and every n in
\* 1 .. 2*WORDBITS, reverse(x, n) is the reversal of the low n bits of x
\* with all higher bits zero, and reverse(reverse(x, n), n) is x & ONES(n),
\* the low n bits of x.
C10_ReverseInvolution ==
    act.kind = "reverse"
    => /\ act.calls = 1 => act.acc.lo = Reflect(act.arg.lo, act.n)
       /\ act.calls = 2 => act.acc.lo = LowBits(act.arg.lo, act.n)

\* C10, for the n that model.h allows, 1 <= n <= WORDBITS.
C10_ReverseInvolutionWord ==
    (act.kind = "reverse" /\ act.n <= WORDBITS)
    => /\ act.calls = 1 => act.acc.lo = Reflect(act.arg.lo, act.n)
       /\ act.calls = 2 => act.acc.lo = LowBits(act.arg.lo, act.n)

\* reverse() has been applied twice with n = 23 to a word with bits set
\* above bit 22.
C10_Witness ==
    /\ act.kind = "reverse"
    /\ act.calls = 2
    /\ act.n = 23
    /\ act.arg.lo = W2(57005, 48879)
    /\ act.acc.lo # act.arg.lo

\* C11 (wordwise alignment): crc_wordwise() returns the same value for the
\* same crc and bytes whatever the address of the buffer is modulo
\* WORDCHARS: what it returned for the buffer at offset act.off is what it
\* returns for the buffer at offset 0.
C11_WordwiseAlignment ==
    ( /\ act.kind = "chain"
      /\ ~act.null
      /\ act.eng = "wordwise" )
    => act.acc.lo = crc_wordwise(model, act.crc0.lo, Data(0, act.pos),
                                 act.pos, 0, little)

\* crc_wordwise() on a host of the given byte order, with the word-wise
\* table that crc_table_wordwise(model, host, WORDBITS) builds for it.
wordwise_on(m, host, crc, dat, len, addr) ==
    crc_wordwise([m EXCEPT !.table_word =
                               crc_table_wordwise(m, host, WORDBITS)],
                 crc, dat, len, addr, host)

\* C12 (endianness transparency): for the same model, crc and bytes,
\* crc_wordwise() on a little-endian host with the tables of
\* crc_table_wordwise(model, 1, WORDBITS) and on a big-endian host with
\* those of crc_table_wordwise(model, 0, WORDBITS) return the same CRC: what
\* the call returned on the little-endian host is what it returns on the
\* big-endian one.
C12_Endianness ==
    ( /\ act.kind = "chain"
      /\ ~act.null
      /\ act.eng = "wordwise"
      /\ little = 1 )
    => act.acc.lo = wordwise_on(model, 0, act.crc0.lo, Data(0, act.pos),
                                act.pos, act.off)

\* crc_wordwise() has run its word loop twice on a little-endian host, on
\* a reflected model whose table entries differ between the two byte
\* orders.
C12_Witness ==
    /\ act.kind = "chain"
    /\ ~act.null
    /\ act.eng = "wordwise"
    /\ little = 1
    /\ act.pos = Len(test)
    /\ act.off = 1
    /\ model.width = 12
    /\ model.ref = 1
    /\ model.table_word # crc_table_wordwise(model, 0, WORDBITS)
    /\ act.acc.lo # act.crc0.lo

RECURSIVE AloneFrom(_, _, _, _, _)
AloneFrom(c, i, crc, k, pos) ==
    IF k > Len(c.cuts) THEN crc
    ELSE AloneFrom(c, i,
                   Engine(c.eng, model, crc,
                          SubSeq(buffer(i), pos + 1, pos + c.cuts[k]),
                          c.cuts[k], c.off + pos, little),
                   k + 1, pos + c.cuts[k])

Alone(c, i) ==
    AloneFrom(c, i, Engine(c.eng, model, Word0, NULL, 0, 0, little), 1, 0)

C15_Totality == pc \notin {"hung", "aborted"}

\* C15 for the models of width 2 alone.
C15_TotalityWidth2 == model.width = 2 => pc \notin {"hung", "aborted"}

\* The parameters of model a are those of the model of r, and the value
\* read_model() returned is that of r.
same_read(a, v, r) ==
    /\ v = r.ret
    /\ \A f \in {"width", "ref", "rev", "poly", "poly_hi", "init", "init_hi",
                 "xorout", "xorout_hi", "check", "check_hi", "res", "res_hi"} :
          a[f] = r.m[f]

\* C16 (case-insensitive parsing): a line read with upper-case letters in
\* its parameter names, in true and false and in its hexadecimal digits and
\* 0X prefix gives the model and the return value that the same line in
\* lower case gives: the same refin and refout flags and the same numbers.
C16_CaseInsensitive ==
    pc = "read" => same_read(model, ret, read_model(Blank, Lower(line), 0))

\* C16 for the numbers alone: all of the model but the two flags.
C16_CaseInsensitiveNumbers ==
    pc = "read"
    => same_read([model EXCEPT !.ref = 0, !.rev = 0], ret,
                 [read_model(Blank, Lower(line), 0)
                     EXCEPT !.m.ref = 0, !.m.rev = 0])

\* The double word hi:lo is set and is less than 2^width.
InRange(hi, lo, width) ==
    /\ hi # UNSET
    /\ lo # UNSET
    /\ \A i \in Dw(hi, lo) : i < width

\* The model is fully specified and valid.
Valid(m) ==
    /\ m.width \in 1 .. 2 * WORDBITS
    /\ 0 \in m.poly
    /\ InRange(m.poly_hi, m.poly, m.width)
    /\ InRange(m.init_hi, m.init, m.width)
    /\ InRange(m.xorout_hi, m.xorout, m.width)
    /\ InRange(m.check_hi, m.check, m.width)
    /\ InRange(m.res_hi, m.res, m.width)
    /\ m.name # NULL

\* The lines with a syntax error, an unknown parameter, a repeated one, a
\* required one missing or a value out of range.
Faulty ==
    SyntaxLines \cup MissingLines \cup RangeLines \cup FaultLines
                \cup NameLines

\* C17 (validation): read_model() returns 0 only with a model that is fully
\* specified and valid (1 <= width <= 2*WORDBITS, the low bit of poly one,
\* poly, init, xorout, check and residue below 2^width), and it returns 1
\* for every line with a syntax error, an unknown, repeated or missing
\* parameter, or a value out of range.
C17_Validation ==
    pc = "read"
    => /\ ret = 0 => (Valid(model) /\ flags.got = ALL)
       /\ line \in Faulty => ret = 1

\* C17, first half alone: a model returned with 0 is fully specified and
\* valid.
C17_ValidationOfModel ==
    (pc = "read" /\ ret = 0) => (Valid(model) /\ flags.got = ALL)

\* nm is a non-empty prefix of key of at least least characters, whatever
\* the case of its letters.
IsPrefix(nm, key, least) ==
    /\ Len(nm) >= least
    /\ Len(nm) <= Len(key)
    /\ \A i \in 1 .. Len(nm) : Lower(nm)[i] = key[i]

\* The parameter a name stands for: r, re and ref stand for refin, refout
\* takes four characters and residue three; "none" for a name that stands
\* for no parameter.
KeyOf(nm) ==
    IF IsPrefix(nm, key_refin, 1) THEN "refin"
    ELSE IF IsPrefix(nm, key_refout, 4) THEN "refout"
    ELSE IF IsPrefix(nm, key_residue, 3) THEN "res"
    ELSE IF \E k \in Keys : IsPrefix(nm, k[1], 1)
    THEN (CHOOSE k \in Keys : IsPrefix(nm, k[1], 1))[2]
    ELSE "none"

\* C18 (parameter-name abbreviation): read_model() takes a name for a
\* parameter exactly when the name is a non-empty prefix of the parameter's
\* name in either case, r, re and ref being refin, refout needing four
\* characters and residue three; any other name, one longer than the
\* parameter name it begins with among them, is reported as unknown; in
\* both cases the line is refused. Seen on the full KERMIT line followed by
\* name=1: a name that is taken repeats its parameter and no other.
C18_Abbreviation ==
    pc = "read"
    => \A nm \in Names :
          line = NameLine(nm)
          => /\ ret = 1
             /\ flags.bad = {}
             /\ IF KeyOf(nm) = "none"
                THEN flags.unk = nm /\ flags.rep = {}
                ELSE flags.unk = NULL /\ flags.rep = {KeyOf(nm)}

\* RESI=1 was read after the full KERMIT line and taken for residue.
C18_Witness ==
    /\ pc = "read"
    /\ line = NameLine(<<82, 69, 83, 73>>)
    /\ flags.rep = {"res"}
    /\ flags.unk = NULL
    /\ ret = 1

\* What each line with faults is to be reported as: the parameters out of
\* range and the parameters repeated.
Reports ==
    { [line |-> fault_init, bad |-> {"init"}, rep |-> {}],
      [line |-> fault_poly, bad |-> {"poly"}, rep |-> {}],
      [line |-> fault_over, bad |-> {"xorout"}, rep |-> {}],
      [line |-> fault_flag, bad |-> {"refin"}, rep |-> {}],
      [line |-> fault_dup_flag, bad |-> {}, rep |-> {"refin"}],
      [line |-> fault_dup_init, bad |-> {}, rep |-> {"init"}],
      [line |-> fault_many, bad |-> {"init", "refin", "check"},
       rep |-> {"poly"}] }

\* The line was refused with the faults of the report e, and the first
\* value of each repeated parameter is the one in the model.
Reported(e) ==
    /\ ret = 1
    /\ flags.bad = e.bad
    /\ flags.rep = e.rep
    /\ line = fault_dup_flag => model.ref = 1
    /\ line = fault_dup_init => model.init = W(1)
    /\ line = fault_many => (model.poly = W(4129) /\ flags.unk = <<113>>)

\* C19 (fault reporting): read_model() notes every fault of a line before
\* it returns 1, each against the parameter that caused it: a value that
\* is no number or overflows sets the out-of-range flag of its own
\* parameter and of no other (a malformed init that of init), a parameter
\* given twice sets its repeated flag alone and keeps its first value.
C19_FaultReporting ==
    pc = "read" => \A e \in Reports : line = e.line => Reported(e)

\* C19 for every line but the one with the malformed init.
C19_FaultReportingOthers ==
    pc = "read"
    => \A e \in Reports : (line = e.line /\ line # fault_init) => Reported(e)

\* The look-ups of one word agree with the byte-wise steps: from the crc and
\* on the WORDCHARS bytes of the test buffer after the first p, at an
\* aligned address, the one pass of the word loop of crc_wordwise() gives
\* what WORDCHARS steps of crc_bytewise() give.
LanesAgree(crc, p) ==
    crc_wordwise(model, crc, Data(p, p + WORDCHARS), WORDCHARS, 0, little)
    = crc_bytewise(model, crc, Data(p, p + WORDCHARS), WORDCHARS)

\* The words and the crc values the tables are tried on.
LanesAgreeAll ==
    \A p \in 0 .. (Len(test) - WORDCHARS) :
       \A crc \in CrcArgs(model.width) \cup {[hi |-> {}, lo |-> model.init]} :
          LanesAgree(crc.lo, p)

\* C20 (word-wise table content): for every normalised model of width at
\* most WORDBITS, those with rev = 1 and an xorout that is not its own
\* reversal among them, table_word[n][k] holds the register after byte k
\* and n zero bytes in the representation crc_bytewise() uses, so that the
\* exclusive-or of the WORDCHARS look-ups of one word is what WORDCHARS
\* steps of crc_bytewise() on the same bytes give.
C20_TableContent ==
    (pc \in {"word", "comb"} /\ act.kind = "none") => LanesAgreeAll

\* C20 for the models with rev = 0 or with an xorout that is its own
\* reversal over width bits.
C20_TableContentPlain ==
    ( /\ pc \in {"word", "comb"}
      /\ act.kind = "none"
      /\ (model.rev = 0 \/ reverse(model.xorout, model.width) = model.xorout) )
    => LanesAgreeAll

\* C21 (multiplication modulo p): on a normalised model, multmodp(a, b) for
\* a width-bit a that is not zero and a width-bit b is the width-bit residue
\* a(x) b(x) mod p(x) in the model's bit order; it is multmodp(b, a) when b is
\* not zero either, and multmodp(x^0, b) is b.
C21_Multmodp ==
    act.kind = "mul"
    => /\ act.r \subseteq 0 .. (model.width - 1)
       /\ PolyOf(act.r, model.width, model.ref)
              = MulModP(PolyOf(act.a, model.width, model.ref),
                        PolyOf(act.b, model.width, model.ref),
                        ParmPoly, model.width)
       /\ act.b # {} => act.r = multmodp(model, act.b, act.a)
       /\ multmodp(model,
                   IF model.ref = 1 THEN SHL(W(1), model.width - 1) ELSE W(1),
                   act.b) = act.b

\* multmodp() has returned a product that is neither operand, for operands
\* of a normal model of width 32 that make the reduction by p(x) work.
C21_Witness ==
    /\ act.kind = "mul"
    /\ model.width = 32
    /\ model.ref = 0
    /\ act.a = ONES(32)
    /\ act.b = SHL(W(1), 31)
    /\ act.r \notin {act.a, act.b, {}}

\* The same for a reflected model of width 3.
C21_WitnessReflected ==
    /\ act.kind = "mul"
    /\ model.width = 3
    /\ model.ref = 1
    /\ act.a = W(3)
    /\ act.b = W(5)
    /\ act.r \notin {act.a, act.b, {}}

\* The entries of table_comb[] are x, and then each the square modulo p(x)
\* of the one before it, so that entry k is x^(2^k) mod p(x); none is zero.
SquaresOfX(tab, width, ref) ==
    /\ PolyOf(tab[1], width, ref) = Advance({0}, ParmPoly, width, 1)
    /\ \A k \in 1 .. (Len(tab) - 1) :
          PolyOf(tab[k + 1], width, ref)
              = MulModP(PolyOf(tab[k], width, ref),
                        PolyOf(tab[k], width, ref), ParmPoly, width)
    /\ \A k \in 1 .. Len(tab) : tab[k] # {} /\ tab[k] \subseteq 0 .. (width - 1)

\* C22 (combine table): once crc_table_combine() has been called on a model
\* of width 1 up to WORDBITS, it has returned and every entry k below cycle
\* of table_comb[] is the width-bit residue x^(2^k) mod p(x) in the model's
\* bit order, table_comb[0] being x mod p(x), and none is zero.
C22_CombineTable ==
    (pc \in {"comb", "hung"} /\ act.kind = "none")
    => /\ pc = "comb"
       /\ model.cycle = Len(model.table_comb)
       /\ SquaresOfX(model.table_comb, model.width, model.ref)

\* The same for the widths from 2 up.
C22_CombineTableWidth2 ==
    (pc \in {"comb", "hung"} /\ act.kind = "none" /\ model.width >= 2)
    => /\ pc = "comb"
       /\ model.cycle = Len(model.table_comb)
       /\ SquaresOfX(model.table_comb, model.width, model.ref)

\* C23 (cycle invariant): when crc_table_combine() has returned, cycle is
\* at least 1 and at most the size of table_comb[]; back is -1, or it is an
\* index below cycle and the square modulo p(x) of table_comb[cycle - 1] is
\* table_comb[back]; the entries below cycle are pairwise distinct; and
\* when back is not -1 every index at which crc_zeros() and x8nmodp() read
\* table_comb[] is below cycle.
C23_CycleInvariant ==
    pc = "comb"
    => /\ model.cycle >= 1
       /\ model.cycle <= TableCombSize
       /\ model.cycle <= Len(model.table_comb)
       /\ \/ model.back = -1
          \/ /\ model.back \in 0 .. (model.cycle - 1)
             /\ PolyOf(model.table_comb[model.back + 1], model.width, model.ref)
                    = MulModP(PolyOf(model.table_comb[model.cycle],
                                     model.width, model.ref),
                              PolyOf(model.table_comb[model.cycle],
                                     model.width, model.ref),
                              ParmPoly, model.width)
       /\ \A i, j \in 1 .. model.cycle :
              i # j => model.table_comb[i] # model.table_comb[j]
       /\ (act.kind \in {"zeros", "x8n"} /\ model.back # -1)
              => act.reads \subseteq 0 .. (model.cycle - 1)
       /\ (act.kind = "x8n" /\ model.back # -1)
              => act.k \in 0 .. (model.cycle - 1)

\* crc_zeros() has walked a table of three entries whose cycle goes back to
\* the entry in the middle, around the cycle and through every entry.
C23_Witness ==
    /\ pc = "comb"
    /\ model.cycle = 3
    /\ model.back = 1
    /\ act.kind = "zeros"
    /\ act.n = 2147483647
    /\ act.reads = {0, 1, 2}
    /\ IsWord(act.r)

\* x8nmodp() has been called on a table that filled up without a cycle.
C23_WitnessNoCycle ==
    /\ pc = "comb"
    /\ model.cycle = TableCombSize
    /\ model.back = -1
    /\ act.kind = "x8n"
    /\ act.n = 5
    /\ act.reads = {3, 5}

\* C24 (start of the combine walk), as stated: the walk of x8nmodp() over
\* table_comb[] starts at index min(3, cycle - 1) for every cycle and back
\* that crc_table_combine() can produce.
C24_WalkStartsAtMin ==
    (pc = "comb" /\ act.kind = "x8n")
    => act.k = (IF model.cycle - 1 < 3 THEN model.cycle - 1 ELSE 3)

\* C24 (start of the combine walk), amended: the walk of x8nmodp() starts
\* at index 3 when cycle is above 3, at index back when cycle is 3, and at
\* index cycle - 1 when cycle is below 3; in each case that entry is
\* x^8 mod p(x), and the walk returns x^(8n) mod p(x).
C24_WalkStart ==
    (pc = "comb" /\ act.kind = "x8n")
    => /\ act.k = (IF model.cycle > 3 THEN 3
                   ELSE IF model.cycle = 3 THEN model.back
                   ELSE model.cycle - 1)
       /\ act.k \in 0 .. (model.cycle - 1)
       /\ PolyOf(model.table_comb[act.k + 1], model.width, model.ref)
              = Advance({0}, ParmPoly, model.width, 8)
       /\ IsWord(act.r)
       /\ PolyOf(act.r, model.width, model.ref)
              = PowModP(Advance({0}, ParmPoly, model.width, 8), act.n,
                        ParmPoly, model.width)

\* x8nmodp() has walked, from index 0, a table of three entries whose cycle
\* goes back to its first entry.
C24_Witness ==
    /\ pc = "comb"
    /\ model.cycle = 3
    /\ model.back = 0
    /\ act.kind = "x8n"
    /\ act.k = 0
    /\ act.n = 61417
    /\ act.reads = {0, 1, 2}

\* The table builders and the single-word routines.
SingleWord ==
    {"crc_table_bytewise", "crc_table_wordwise", "crc_table_combine",
     "crc_bitwise", "crc_bytewise", "crc_wordwise", "crc_zeros",
     "crc_combine", "multmodp"}

\* The routines the driver has called on the model.
Called == {act.calls[i] : i \in 1 .. Len(act.calls)}

\* C25 (too-wide models): on a model wider than WORDBITS no driver calls a
\* table builder or a single-word routine; of the CRC routines only
\* crc_bitwise_dbl() and crc_zeros_dbl() are run on it.
C25_WideOnlyDbl ==
    model.width > WORDBITS
    => /\ Called \cap SingleWord = {}
       /\ Called \subseteq {"process_model", "crc_bitwise_dbl", "crc_zeros_dbl"}

\* The same for the generator drivers alone, which skip such a model.
C25_WideGenerators ==
    (model.width > WORDBITS /\ act.driver \in Generators)
    => Called = {}

\* C27 (lifecycle ordering): in every driver process_model() is called once
\* on a model that read_model() accepted and the driver goes on with,
\* before any table builder and any CRC routine, and no routine reads a
\* table that has not been built: crc_table_bytewise() has filled
\* table_byte before crc_table_wordwise() reads it.
C27_Lifecycle ==
    /\ Cardinality({i \in 1 .. Len(act.calls) :
                        act.calls[i] = "process_model"}) <= 1
    /\ act.calls # <<>> => act.calls[1] = "process_model"
    /\ (ret = 0 /\ pc # "read" /\ ~act.skipped)
           => "process_model" \in Called
    /\ ret = 1 => act.calls = <<>>
    /\ act.unbuilt = {}

\* The same for crctest.c and crcadd.c alone.
C27_LifecycleBuilt ==
    act.driver \in {"crctest", "crcadd"} => C27_Lifecycle

\* C28 (table aliasing): whenever crc_gen() has written
\* "#define table_byte table_word[0]", the model holds a byte-wise table and
\* the word-wise table crc_table_wordwise() produced from it, and
\* table_word[0][k] equals table_byte[k] for every k in 0..255.
C28_AliasedTables ==
    act.alias = 1
    => /\ model.table_byte # NoTable
       /\ model.table_word # Indeterminate
       /\ \A k \in 0 .. 255 : model.table_word[0][k] = model.table_byte[k]

\* C28, where the byte-wise table was built before crc_gen() as crc.h
\* requires: whenever crc_gen() has written the define, table_word[0][k]
\* equals table_byte[k] for every k in 0..255.
C28_TableAlias ==
    (act.alias = 1 /\ model.table_byte # NoTable)
    => \A k \in 0 .. 255 : model.table_word[0][k] = model.table_byte[k]

\* crc_gen() has written the define for a non-reflected model of width 3 on
\* a little-endian target, where the word-wise entries are shifted to the
\* top of the word and byte-swapped.
C28_Witness ==
    /\ act.driver = "crcadd"
    /\ act.alias = 1
    /\ little = 1
    /\ model.ref = 0
    /\ model.width = 3
    /\ model.table_byte # NoTable
    /\ model.table_byte[255] # {}
    /\ model.table_word[1][255] # model.table_byte[255]

\* The same for a non-reflected model of width WORDBITS on a big-endian
\* target.
C28_WitnessBig ==
    /\ act.driver = "crcadd"
    /\ act.alias = 1
    /\ little = 0
    /\ model.ref = 0
    /\ model.width = WORDBITS
    /\ model.table_byte[255] # {}

\* C26 (double-word engine): on a normalised model wider than WORDBITS,
\* whichever of its three loops crc_bitwise_dbl() takes and with and without
\* rev, the pair it returns is, as one double word, the CRC that the
\* bit-serial reference on one register computes for the same bytes, the
\* NULL call returns the CRC of no bytes, and the high word has no bit at
\* or above width - WORDBITS; and reverse_dbl() applied twice with the same
\* n leaves the low n bits of hi:lo and zeros above them.
C26_DoubleWord ==
    /\ (act.kind = "chain" /\ act.null /\ act.calls = 0)
       => Dw(act.acc.hi, act.acc.lo) = EmptyCRC
    /\ (act.kind = "chain" /\ act.calls >= 1)
       => /\ Dw(act.acc.hi, act.acc.lo)
               = ReferenceCRC(Dw(act.crc0.hi, act.crc0.lo), Data(0, act.pos))
          /\ act.acc.hi \subseteq 0 .. (model.width - WORDBITS - 1)
    /\ act.kind = "dbl"
       => /\ Dw(act.crc0.hi, act.crc0.lo) = EmptyCRC
          /\ Dw(act.acc.hi, act.acc.lo) = ReferenceCRC(EmptyCRC, DblData[act.n])
          /\ act.acc.hi \subseteq 0 .. (model.width - WORDBITS - 1)
    /\ (act.kind = "reverse_dbl" /\ act.calls = 1)
       => Dw(act.acc.hi, act.acc.lo)
            = Reflect(Dw(act.arg.hi, act.arg.lo), act.n)
    /\ (act.kind = "reverse_dbl" /\ act.calls = 2)
       => Dw(act.acc.hi, act.acc.lo)
            = LowBits(Dw(act.arg.hi, act.arg.lo), act.n)

\* crc_bitwise_dbl() has returned on nine bytes given in two calls after the
\* NULL call, for a non-reflected model of width 48 with rev = 1 and a
\* nonzero xorout.
C26_Witness ==
    /\ act.kind = "chain"
    /\ act.eng = "bitwise_dbl"
    /\ act.null
    /\ act.calls = 2
    /\ act.pos = 9
    /\ model.width = 48
    /\ model.ref = 0
    /\ model.rev = 1
    /\ ParmXorout # {}
    /\ act.acc.hi # {}

\* crc_bitwise_dbl() has returned on five bytes for a non-reflected model of
\* width 33, and for a reflected one of width 64.
C26_WitnessCross ==
    /\ act.kind = "dbl"
    /\ act.pos = 5
    /\ model.width = 33
    /\ model.ref = 0
    /\ act.acc # act.crc0

C26_WitnessRef ==
    /\ act.kind = "dbl"
    /\ act.pos = 5
    /\ model.width = 64
    /\ model.ref = 1
    /\ act.acc # act.crc0

\* reverse_dbl() has been applied twice with n = 45 to a pair with bits set
\* above bit 44.
C26_WitnessReverse ==
    /\ act.kind = "reverse_dbl"
    /\ act.calls = 2
    /\ act.n = 45
    /\ act.arg.hi = W2(57005, 48879)
    /\ act.acc # act.arg

\* A subscript of a 256-entry table that lies in 0..255.
InTable(x) == x \subseteq 0 .. 7

\* A CRC value below 2^width.
BelowWidth(x, width) == x \subseteq 0 .. (width - 1)

\* C30 (table index safety and range closure): on a normalised model of
\* width at most WORDBITS and a crc below 2^width, every subscript of
\* table_byte[] and table_word[n][] that crc_table_wordwise(),
\* crc_bytewise() and crc_wordwise() compute lies in 0..255, and what
\* crc_bitwise(), crc_bytewise(), crc_wordwise(), crc_zeros() and
\* crc_combine() return is below 2^width, also for no bytes, after the NULL
\* call and after a further call on the value returned.
C30_IndexAndRange ==
    /\ (pc = "word" /\ act.kind = "none")
       => \A x \in table_wordwise_indices(model, WORDBITS) : InTable(x)
    /\ (act.kind = "chain" /\ act.calls = 1)
       => \A x \in EngineIndices(act.eng, model, act.crc0, Data(0, act.pos),
                                 act.pos, act.off, little) : InTable(x)
    /\ act.kind \in {"chain", "zeros", "combine"}
       => /\ BelowWidth(act.crc0.lo, model.width)
          /\ BelowWidth(act.acc.lo, model.width)
          /\ act.acc.hi = {}
    /\ act.kind = "combine"
       => /\ BelowWidth(act.crc1, model.width)
          /\ BelowWidth(act.crc2, model.width)

\* crc_wordwise() has returned on nine bytes at an odd address, with passes
\* of its head, word and tail loops, for a non-reflected model of width 3,
\* whose register is kept shifted by five bits.
C30_Witness ==
    /\ act.kind = "chain"
    /\ act.eng = "wordwise"
    /\ act.calls = 1
    /\ act.off = 1
    /\ act.pos = 9
    /\ model.width = 3
    /\ model.ref = 0
    /\ act.crc0.lo = ONES(3)
    /\ Cardinality(wordwise_indices(model, act.crc0.lo, Data(0, 9), 9, 1,
                                    little)) > 4

\* crc_bytewise() has returned on nine bytes for a non-reflected model of
\* width 8, whose subscripts are not masked.
C30_WitnessBytewise ==
    /\ act.kind = "chain"
    /\ act.eng = "bytewise"
    /\ act.calls = 1
    /\ act.pos = 9
    /\ model.width = 8
    /\ model.ref = 0
    /\ \E x \in bytewise_indices(model, act.crc0.lo, Data(0, 9), 9) : 7 \in x

\* crc_zeros() and crc_combine() have returned a nonzero value for a model
\* of width 12, and an engine has returned from a call with no bytes.
C30_WitnessZeros ==
    /\ act.kind = "zeros"
    /\ act.n > 0
    /\ model.width = 12
    /\ act.acc.lo # {}

C30_WitnessCombine ==
    /\ act.kind = "combine"
    /\ act.n > 0
    /\ act.pos > 0
    /\ model.width = 12
    /\ act.acc.lo # {}

C30_WitnessEmpty ==
    /\ act.kind = "chain"
    /\ ~act.null
    /\ act.calls = 1
    /\ act.pos = 0
    /\ act.eng = "wordwise"
    /\ model.rev = 1

\* ------------------------------------------------------------------------
\* Calls of the routines crc_gen() writes, as test_gen() of crcall.c and a
\* user of the written code make them.
\* ------------------------------------------------------------------------

\* Widths whose crc_type is wider than the CRC and whose top byte is
\* partly used, besides those of Polys.
PolysGen == { <<16, {}, W(4129)>>, <<21, {}, W(1058969)>> }

ModelsGen ==
    ModelsRange
    \cup { ReadRecord(p[1], p[2], p[3], Val(ix[1], p[1]), refin, refout,
                      Val(ix[2], p[1])) :
             p \in PolysGen, ix \in InitXor, refin \in {0, 1},
             refout \in {0, 1} }

\* What the tables can hold when crc_gen() is called before
\* crc_table_bytewise(): table_byte points at memory nothing has written
\* and table_word[][] is computed from it.
JunkTables ==
    { [byte |-> [k \in 0 .. 255 |-> XOR(Bits, ByteWord[k])],
       word |-> [n \in 0 .. (WORDCHARS - 1) |->
                    [k \in 0 .. 255 |->
                        OR(SHL(ByteWord[k], 8 * n), SHL(mask_1, 31 - n))]]] }

\* The messages given to the written routines.
GenData == DblData \o <<test>>

\* The bytes given to _rem.
GenBytes == {0, 1, 128, 165, 218, 255}

\* The CRC values the calls start from.
GenCrcs(m) ==
    { as_type(m.init, m.width), AND(W2(42405, 42405), ONES(m.width)) }

\* Bits above the width in the crc argument: all of them, as in blot of
\* test_gen(), or the lowest one.
GenBlots(m) ==
    IF m.width = INTMAX_BITS THEN { {} }
    ELSE { Bits \ ONES(m.width), SHL(mask_1, m.width) }

\* The part of the byte v that is left after its first k bits: the high
\* bits moved down for a reflected model, the low bits moved up otherwise.
gen_rest(m, v, k) ==
    IF m.ref = 1 THEN SHR(ByteWord[v], k)
    ELSE AND(SHL(ByteWord[v], k), mask_ff)

InitGen ==
    /\ pc = "read"
    /\ line = <<>>
    /\ flags = [got |-> ALL, bad |-> {}, rep |-> {}, unk |-> NULL]
    /\ ret = 0
    /\ model \in ModelsGen
    /\ parm = model
    /\ little = -1
    /\ act = Idle

\* crcadd.c: crc_gen() after crc_table_bytewise().
GenBuilt ==
    /\ pc = "byte"
    /\ \E host \in {0, 1} :
          /\ little' = host
          /\ model' = gen_wordwise(model, host, INTMAX_BITS)
    /\ pc' = "gen"
    /\ UNCHANGED <<line, flags, ret, parm, act>>

\* crcall.c and crcgen.c: crc_gen() right after process_model().
GenUnbuilt ==
    /\ pc = "processed"
    /\ Narrow(model)
    /\ \E host \in {0, 1}, junk \in JunkTables :
          /\ little' = host
          /\ model' = [model EXCEPT !.table_byte = junk.byte,
                                    !.table_word = junk.word]
    /\ pc' = "gen"
    /\ UNCHANGED <<line, flags, ret, parm, act>>

\* The record of a call of a written routine on crc with the bits blot
\* set above the width.
GenCall(eng, crc, blot, k, addr, result) ==
    [Idle EXCEPT !.kind = "gen", !.eng = eng, !.calls = 1,
                 !.crc0 = [hi |-> {}, lo |-> crc],
                 !.arg = [hi |-> {}, lo |-> crc \cup blot],
                 !.n = k, !.off = addr,
                 !.acc = [hi |-> {}, lo |-> result]]

CallGenBit ==
    /\ pc = "gen"
    /\ act.kind = "none"
    /\ \E crc \in GenCrcs(model), blot \in GenBlots(model),
          k \in 1 .. Len(GenData) :
          act' = GenCall("bit", crc, blot, k, 0,
                         gen_bit(model, crc \cup blot, GenData[k],
                                 Len(GenData[k])))
    /\ UNCHANGED <<pc, line, flags, ret, parm, model, little>>

CallGenByte ==
    /\ pc = "gen"
    /\ act.kind = "none"
    /\ \E crc \in GenCrcs(model), blot \in GenBlots(model),
          k \in 1 .. Len(GenData) :
          act' = GenCall("byte", crc, blot, k, 0,
                         gen_byte(model, little, INTMAX_BITS, crc \cup blot,
                                  GenData[k], Len(GenData[k])))
    /\ UNCHANGED <<pc, line, flags, ret, parm, model, little>>

CallGenWord ==
    /\ pc = "gen"
    /\ act.kind = "none"
    /\ \E crc \in GenCrcs(model), blot \in GenBlots(model),
          k \in 1 .. Len(GenData), addr \in {0, 1, 3} :
          act' = GenCall("word", crc, blot, k, addr,
                         gen_word(model, little, INTMAX_BITS, crc \cup blot,
                                  GenData[k], Len(GenData[k]), addr))
    /\ UNCHANGED <<pc, line, flags, ret, parm, model, little>>

\* name_rem(crc, v, k): the first k bits of the byte v.
CallGenRem ==
    /\ pc = "gen"
    /\ act.kind = "none"
    /\ \E crc \in GenCrcs(model), blot \in GenBlots(model),
          v \in GenBytes, k \in 0 .. 8 :
          act' = [GenCall("rem", crc, blot, k, 0,
                          gen_rem(model, crc \cup blot, ByteWord[v], k))
                  EXCEPT !.pos = v]
    /\ UNCHANGED <<pc, line, flags, ret, parm, model, little>>

\* name_rem(the result, rest, 8 - k): the other bits of that byte.
CallGenRemRest ==
    /\ pc = "gen"
    /\ act.kind = "gen"
    /\ act.eng = "rem"
    /\ act.calls = 1
    /\ act' = [act EXCEPT
                  !.calls = 2,
                  !.acc = [hi |-> {},
                           lo |-> gen_rem(model, act.acc.lo,
                                          gen_rest(model, act.pos, act.n),
                                          8 - act.n)]]
    /\ UNCHANGED <<pc, line, flags, ret, parm, model, little>>

NextGen ==
    \/ ProcessModel
    \/ TableBytewise
    \/ GenBuilt
    \/ GenUnbuilt
    \/ CallGenBit
    \/ CallGenByte
    \/ CallGenWord
    \/ CallGenRem
    \/ CallGenRemRest
    \/ Drop

SpecGen == InitGen /\ [][NextGen]_vars

\* C29: for every model crc_gen() takes, every starting crc, with or
\* without bits set above the width, and every byte v split after its
\* first k bits, name_rem(name_rem(crc, v, k), rest, 8 - k) is
\* name_bit(crc, v, 1); and name_bit, name_byte and name_word return for
\* crc with bits set above the width what they return for crc without.
C29_PartialByte ==
    (pc = "gen" /\ act.kind = "gen") =>
        /\ (act.eng = "rem" /\ act.calls = 2) =>
              act.acc.lo = gen_bit(model, act.arg.lo, <<act.pos>>, 1)
        /\ act.eng = "bit" =>
              act.acc.lo = gen_bit(model, act.crc0.lo, GenData[act.n],
                                   Len(GenData[act.n]))
        /\ act.eng = "byte" =>
              act.acc.lo = gen_byte(model, little, INTMAX_BITS, act.crc0.lo,
                                    GenData[act.n], Len(GenData[act.n]))
        /\ act.eng = "word" =>
              act.acc.lo = gen_word(model, little, INTMAX_BITS, act.crc0.lo,
                                    GenData[act.n], Len(GenData[act.n]),
                                    act.off)

\* The three bits 110 of 0xda and then its other five, on a CRC of 12
\* bits that is not reflected, from a crc with all bits above the width.
C29_Witness ==
    /\ pc = "gen"
    /\ act.kind = "gen"
    /\ act.eng = "rem"
    /\ act.calls = 2
    /\ act.n = 3
    /\ act.pos = 218
    /\ model.width = 12
    /\ model.ref = 0
    /\ act.arg.lo # act.crc0.lo
    /\ act.acc.lo # act.crc0.lo

\* The word-wise routine on nine bytes off a word boundary, from a crc
\* with bits above the width, with the tables built.
C29_WitnessWord ==
    /\ pc = "gen"
    /\ act.kind = "gen"
    /\ act.eng = "word"
    /\ act.off = 3
    /\ GenData[act.n] = test
    /\ model.width = 21
    /\ little = 1
    /\ act.arg.lo # act.crc0.lo
    /\ model.table_byte = crc_table_bytewise(model)

\* The byte-wise routine with the tables crc_gen() wrote unbuilt.
C29_WitnessUnbuilt ==
    /\ pc = "gen"
    /\ act.kind = "gen"
    /\ act.eng = "byte"
    /\ model.width = 3
    /\ model.rev = 1
    /\ act.arg.lo # act.crc0.lo
    /\ model.table_byte # crc_table_bytewise(model)

=============================================================================
